------------------------------ MODULE MCDelivery ------------------------------
(* From a Repository to a Draft Pull Request, on small instances: the source *)
(* of one Attempt and the credentials for it, the workspace the commit is    *)
(* made of, and the calls that publish it.  The components hand each other   *)
(* one value (a directory, a commit) and share no variable: a behaviour      *)
(* exercises one of them, which Init chooses.                                *)
EXTENDS DeliveryPublish, AttemptWorkspace, RepositorySource, TLC

VARIABLE part

\* The Attempts that publish are interchangeable.
Symmetry == Permutations(Attempts)

\* AttemptWorkspace, base trees: an executable file with Windows line endings, a
\* plain file, a link to it, a quarantined file, .github as a directory and as
\* a link, and trees that are refused.
MCBaseTrees ==
    LET Tree(p, q, env, hub, modules) ==
          [x \in {"p", "q", "env", "hub", "modules", "temp"} |->
             CASE x = "p" -> p [] x = "q" -> q [] x = "env" -> env
               [] x = "hub" -> hub [] x = "modules" -> modules [] OTHER -> Absent]
        script == Regular("a", "crlf", TRUE)
        plain  == Regular("a", "lf", FALSE)
    IN  {Tree(script, Absent, plain, plain, Absent),
         Tree(plain, LinkTo("p"), Absent, LinkTo("p"), Absent),
         Tree(HardLink("a"), plain, Absent, Absent, Absent),
         Tree(plain, plain, Absent, Absent, plain),
         Tree(plain, plain, Absent, Absent, Absent)}

MCInit ==
    /\ part \in {"publish", "workspace", "source"}
    /\ Init /\ WorkspaceInit /\ SourceInit
    /\ part # "workspace" => base = CHOOSE t \in BaseTrees : TRUE

MCNext ==
    \/ part = "publish" /\ Next /\ UNCHANGED <<part, filesVars, sourceVars>>
    \/ part = "workspace" /\ WorkspaceNext /\ UNCHANGED <<part, vars, sourceVars>>
    \/ part = "source" /\ SourceNext /\ UNCHANGED <<part, vars, filesVars>>

MCSpec == MCInit /\ [][MCNext]_<<part, vars, filesVars, sourceVars>>
=============================================================================
