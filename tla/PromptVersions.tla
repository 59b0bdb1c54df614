--------------------------- MODULE PromptVersions ---------------------------
(***************************************************************************)
(* PromptVersionManager (shared/prompt_versioning.py): versions of a       *)
(* prompt are numbered by their place in a list, 1.n.0, and a rollback     *)
(* appends a copy of an earlier one.  A version that does not exist is     *)
(* rolled back to as if none had been named.                               *)
(***************************************************************************)
EXTENDS Integers, Sequences

CONSTANTS
    PromptIds,
    Contents,
    MaxVersions    \* bound on the versions of a prompt

ASSUME VersionsAssumption == MaxVersions \in Nat \ {0}

VARIABLES
    versions,      \* list of [number, content] of each prompt
    held           \* number and content some caller was given, or NoVersion

versionsVars == <<versions, held>>

Version(n, content) == [number |-> n, content |-> content]

NoVersion == [number |-> 0, content |-> "none"]

VersionsInit ==
    /\ versions = [p \in PromptIds |-> <<>>]
    /\ held = [p \in PromptIds |-> NoVersion]

\* Mutant: a number counts from the last version asked for.
NextNumber_Held(p) == held[p].number + 1

NextNumber(p) == Len(versions[p]) + 1

AppendVersion(p, content) ==
    /\ Len(versions[p]) < MaxVersions
    /\ versions' = [versions EXCEPT ![p] = Append(@, Version(NextNumber(p), content))]
    /\ UNCHANGED held

CreateVersion(p, content) == AppendVersion(p, content)

\* The first version of the number asked for.
Numbered(p, n) == {k \in DOMAIN versions[p] :
    /\ versions[p][k].number = n
    /\ \A j \in 1..(k - 1) : versions[p][j].number # n}

Previous(p) == IF Len(versions[p]) > 1 THEN Len(versions[p]) - 1 ELSE Len(versions[p])

\* Number 0 stands for no target.
Rollback(p, target) ==
    /\ versions[p] # <<>>
    /\ LET source == IF Numbered(p, target) # {} THEN Numbered(p, target) ELSE {Previous(p)}
       IN  \E k \in source : AppendVersion(p, versions[p][k].content)

GetVersion(p, n) ==
    \/ /\ n = 0 /\ versions[p] # <<>>
       /\ held' = [held EXCEPT ![p] = versions[p][Len(versions[p])]]
       /\ UNCHANGED versions
    \/ \E k \in Numbered(p, n) :
         /\ held' = [held EXCEPT ![p] = versions[p][k]]
         /\ UNCHANGED versions

VersionsNext ==
    \/ \E p \in PromptIds, content \in Contents : CreateVersion(p, content)
    \/ \E p \in PromptIds, n \in 0..MaxVersions : Rollback(p, n) \/ GetVersion(p, n)

VersionsSpec == VersionsInit /\ [][VersionsNext]_versionsVars

-----------------------------------------------------------------------------
(***************************************************************************)
(* A number names one content for ever: what a caller was given under it   *)
(* is what get_version answers for it now, after any creations and         *)
(* rollbacks, and what a rollback to it would restore.                     *)
(***************************************************************************)
NumberNamesContent ==
    /\ \A p \in PromptIds : \A k, j \in DOMAIN versions[p] :
         versions[p][k].number = versions[p][j].number => k = j
    /\ \A p \in PromptIds : held[p] # NoVersion =>
         \E k \in Numbered(p, held[p].number) : versions[p][k] = held[p]
=============================================================================
