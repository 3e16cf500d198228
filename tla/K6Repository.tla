----------------------------- MODULE K6Repository -----------------------------
(***************************************************************************)
(* The repository of k6 binaries (internal/k6runner/version/repository.go):*)
(* runs of checks ask it at the same time for a binary that meets their    *)
(* constraint; the first of them scans the directory, which runs every     *)
(* binary to learn its version.                                            *)
(*                                                                         *)
(* A version is a number, a constraint the set of the versions that meet   *)
(* it, and a path is the file's place in the directory.                    *)
(***************************************************************************)
EXTENDS Integers, Sequences, FiniteSets, FiniteSetsExt, SequencesExt

CONSTANTS
  Resolvers,
  Directories,      \* sequences of files [kind, version]
  Overrides,        \* versions of an overriding binary; 0: there is none
  Constraints

ASSUME RepositoryAssumption == Overrides \subseteq Nat

VARIABLES
  directory,
  override,         \* of the Repository
  entries,          \* of the Repository: [path, version]
  resolving,        \* where each call of Resolve or Entries is
  wanted,           \* its constraint; {} for Entries
  resolved,         \* its answer
  partial           \* a scan failed after it had found a binary

repositoryVars == <<directory, override, entries, resolving, wanted, resolved, partial>>

\* What stands for a constraint that cannot be parsed.
InvalidConstraint == {-1}

Resolution(kind, found) == [kind |-> kind, found |-> found]

RepositoryInit ==
  /\ directory \in Directories /\ override \in Overrides
  /\ entries = <<>> /\ partial = FALSE
  /\ resolving = [r \in Resolvers |-> "scan"]
  /\ wanted \in [Resolvers -> Constraints \cup {{}, InvalidConstraint}]
  /\ resolved = [r \in Resolvers |-> Resolution("none", <<>>)]

\* The executable files with the right name, in the order of the directory.
binaries ==
  LET found == SelectSeq([i \in 1..Len(directory) |-> <<i, directory[i]>>],
                         LAMBDA file : file[2].kind = "k6")
  IN IF override # 0 THEN <<[path |-> 0, version |-> override]>>
     ELSE [i \in 1..Len(found) |-> [path |-> found[i][1], version |-> found[i][2].version]]

Mut_SortEntries(s) == s

\* Highest version first; the order of equal ones is not determined.
SortEntries(s) ==
  CHOOSE t \in [1..Len(s) -> ToSet(s)] :
    /\ \A i \in 1..Len(s) : \E j \in 1..Len(s) : t[j] = s[i]
    /\ \A i, j \in 1..Len(s) : i < j => t[i].version >= t[j].version

\* scan holds the mutex. It returns at once when there are entries. Otherwise
\* the directory cannot be read, a binary fails, after those before it have been
\* added, or all of them are sorted.
scan(r) ==
  /\ resolving[r] = "scan"
  /\ \/ /\ entries # <<>>
        /\ resolving' = [resolving EXCEPT ![r] = "lookup"]
        /\ UNCHANGED <<entries, resolved, partial>>
     \/ /\ entries = <<>>
        /\ entries' = SortEntries(binaries)
        /\ resolving' = [resolving EXCEPT ![r] = "lookup"]
        /\ UNCHANGED <<resolved, partial>>
     \/ /\ entries = <<>>
        /\ \E n \in {0} \cup 1..Len(binaries) - 1 : entries' = SubSeq(binaries, 1, n)
        /\ partial' = (entries' # <<>>)
        /\ resolving' = [resolving EXCEPT ![r] = "done"]
        /\ resolved' = [resolved EXCEPT ![r] = Resolution("error", <<>>)]
  /\ UNCHANGED <<directory, override, wanted>>

\* The first entry that meets the constraint, which is parsed only now, with the
\* mutex again; Entries copies them all.
Resolve(r) ==
  /\ resolving[r] = "lookup"
  /\ LET matching == {i \in 1..Len(entries) : entries[i].version \in wanted[r]}
     IN resolved' = [resolved EXCEPT ![r] =
          IF wanted[r] = {} THEN Resolution("entries", entries)
          ELSE IF wanted[r] = InvalidConstraint THEN Resolution("invalid", <<>>)
          ELSE IF matching = {} THEN Resolution("unsatisfiable", <<>>)
          ELSE Resolution("entry", <<entries[Min(matching)]>>)]
  /\ resolving' = [resolving EXCEPT ![r] = "done"]
  /\ UNCHANGED <<directory, override, entries, wanted, partial>>

RepositoryNext == \E r \in Resolvers : scan(r) \/ Resolve(r)

------------------------------------------------------------------------------
(* Properties                                                              *)

\* Whichever of the concurrent calls scans, and though calls that failed before
\* did too, a call gets the highest version in the directory that meets its
\* constraint, or learns that there is none, which it can tell from a constraint
\* that is not one; Entries lists each binary once. Not so after a scan that failed half way: what it found stays, is not sorted, and
\* is never completed.
ResolvesHighest ==
  LET found == ToSet(binaries) IN
  \A r \in Resolvers :
    LET answer == resolved[r]
        matching == {e \in found : e.version \in wanted[r]}
    IN ~partial =>
         CASE answer.kind = "entries" ->
                Len(answer.found) = Cardinality(found) /\ ToSet(answer.found) = found
           [] answer.kind = "entry" ->
                /\ answer.found[1] \in matching
                /\ \A e \in matching : e.version <= answer.found[1].version
           [] answer.kind = "unsatisfiable" -> matching = {} /\ wanted[r] # InvalidConstraint
           [] answer.kind = "invalid" -> wanted[r] = InvalidConstraint
           [] OTHER -> TRUE
==============================================================================
