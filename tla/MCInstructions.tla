--------------------------- MODULE MCInstructions ---------------------------
(***************************************************************************)
(* An instance of Instructions and Authoring for TLC: the platform's set,  *)
(* an organisation's general and typed sets, two users' own, a cluster's,  *)
(* a task's and a thread's.  The chat is ann's, in the task.               *)
(***************************************************************************)
EXTENDS Authoring, TLC

CONSTANTS ann, bob, platform, orgAll, orgTyped, annOwn, bobOwn, cluster, task, thread

LevelOf == (platform :> "platform" @@ orgAll :> "org" @@ orgTyped :> "org" @@
            annOwn :> "user" @@ bobOwn :> "user" @@ cluster :> "cluster" @@
            task :> "task" @@ thread :> "thread")
OwnerOf == [s \in Slots |-> IF s \in {bobOwn, orgTyped, orgAll, platform} THEN bob ELSE ann]
EntityOf == [s \in Slots |-> IF s \in {cluster, task, thread} THEN s ELSE None]

RequestSymmetry == Permutations(Requests)

=============================================================================
