----------------------------- MODULE StoreImage -----------------------------
(***************************************************************************)
(* What one copy of the memory store holds, and what a state-changing tool *)
(* call does to it.  Three copies exist at run time: the file-backed       *)
(* SQLite standby, the in-memory active store and the image serialised in  *)
(* the Redis snapshot key.  The native records in Redis are a projection   *)
(* of such a copy.                                                         *)
(*                                                                         *)
(* A tool call is identified by its idempotency key, the hash of the tool  *)
(* name and its arguments, so that two identical calls are one key.  An    *)
(* image counts how often the effect of each key is present.               *)
(***************************************************************************)
EXTENDS Naturals

CONSTANTS
    Keys,        \* operation_key(name, arguments) of the calls considered
    Appends,     \* calls that add a row each time (record_decision)
    Refusing,    \* calls the store refuses to repeat (create_database, begin_run after link_run)
    Requires,    \* calls whose effect a call builds on (the workspace or database it names)
    Tolerated,   \* the refusing calls standby_already_contains recognises
    Workspaces,  \* workspace ids
    WorkspaceOf, \* the workspace argument of each call
    NoWorkspace, \* the call names no workspace (a shared fact)
    MaxCopies    \* bound: an image counts no further than this

ASSUME ImageAssumption ==
    /\ Appends \subseteq Keys
    /\ Refusing \subseteq Keys \ Appends
    /\ Requires \in [Keys -> SUBSET Keys]
    /\ Tolerated \subseteq Refusing
    /\ NoWorkspace \notin Workspaces
    /\ WorkspaceOf \in [Keys -> Workspaces \cup {NoWorkspace}]
    /\ MaxCopies \in Nat \ {0}

Images == [Keys -> 0..MaxCopies]
EmptyImage == [k \in Keys |-> 0]

(* The tool handler behind a key either refuses or takes effect.           *)
Accepts(image, k) ==
    /\ k \in Refusing => image[k] = 0
    /\ \A j \in Requires[k] : image[j] > 0

(* The calls that succeed in every state of the store.                     *)
NeverRefused == {k \in Keys \ Refusing : Requires[k] = {}}

Apply(image, k) ==
    [image EXCEPT ![k] = IF k \in Appends /\ @ < MaxCopies THEN @ + 1
                         ELSE IF k \in Appends THEN @ ELSE 1]

-----------------------------------------------------------------------------
(***************************************************************************)
(* Projections.  A workspace is projected only when a call names it or     *)
(* list_workspace_ids reports it, and rows of no workspace never are.      *)
(***************************************************************************)
KnownWorkspaces(image) ==
    {WorkspaceOf[k] : k \in {j \in Keys : image[j] > 0}} \ {NoWorkspace}

TouchedWorkspaces(S) == {WorkspaceOf[k] : k \in S} \ {NoWorkspace}

(* Records of the given workspaces as the image has them.                  *)
Project(image, scope) ==
    [k \in Keys |-> IF WorkspaceOf[k] \in scope THEN image[k] ELSE 0]

(* Replace in records what lies in the scope by what the image has there.  *)
Overlay(records, image, scope) ==
    [k \in Keys |-> IF WorkspaceOf[k] \in scope THEN image[k] ELSE records[k]]

(* Send only the records of the scope that differ from the cached ones.    *)
ApplyDelta(records, cache, image, scope) ==
    [k \in Keys |-> IF WorkspaceOf[k] \in scope /\ cache[k] # image[k]
                    THEN image[k] ELSE records[k]]
=============================================================================
