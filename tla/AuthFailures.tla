---------------------------- MODULE AuthFailures ----------------------------
(***************************************************************************)
(* The table of authentication failures that every admission controller of *)
(* the server keeps under its mutex (admission.rs, AuthFailureTracker): an *)
(* address that fails too often within a window is blocked for a while.    *)
(* The operators are pure: they take a table and return the next one, or   *)
(* the set of the possible next ones.                                      *)
(*                                                                         *)
(* Instants are kept as distances to now: a failure as its age, a block as *)
(* the time it has left.  A failure older than the window has the age      *)
(* FailureWindow + 1 however old it is, and a block that has run out has   *)
(* 0 left until the entry is next pruned.                                  *)
(***************************************************************************)
EXTENDS Integers, Sequences, FiniteSets, Functions, SequencesExt

CONSTANTS FailureWindow,  \* auth_fail_window_secs, in ticks
          BlockTime,      \* auth_block_secs, in ticks
          SoftLimit,      \* entries beyond which a failure sweeps the table
          HardLimit       \* entries the table never exceeds after a failure

ASSUME AuthFailuresAssumption ==
    /\ FailureWindow \in Nat /\ BlockTime \in Nat \ {0}
    /\ SoftLimit \in Nat /\ HardLimit \in Nat \ {0} /\ SoftLimit <= HardLimit

NotBlocked == -1

FailureState == [recent : UNION {[1..n -> 0..FailureWindow + 1] : n \in 0..3},
                 until : NotBlocked..BlockTime]

Innocent == [recent |-> <<>>, until |-> NotBlocked]

StateOf(table, a) == IF a \in DOMAIN table THEN table[a] ELSE Innocent

WithState(table, a, s) ==
    [x \in DOMAIN table \union {a} |-> IF x = a THEN s ELSE table[x]]

\* An expired failure and an expired block are dropped when an entry is used.
Pruned(s) ==
    [recent |-> SelectSeq(s.recent, LAMBDA age : age <= FailureWindow),
     until  |-> IF s.until > 0 THEN s.until ELSE NotBlocked]

IsBlocked(table, a) == StateOf(table, a).until > 0

Forgiven(table, a) == Restrict(table, DOMAIN table \ {a})

\* The table after a check of address a, which also prunes its entry.
AfterCheck(table, a) ==
    LET s == Pruned(StateOf(table, a)) IN
    IF s = Innocent THEN Forgiven(table, a) ELSE WithState(table, a, s)

Swept(table) ==
    Restrict([a \in DOMAIN table |-> Pruned(table[a])],
             {a \in DOMAIN table : Pruned(table[a]) # Innocent})

\* When the entry was last of use: the end of its block, or its last failure.
Activity(s) ==
    IF s.until # NotBlocked THEN s.until
    ELSE IF s.recent = <<>> THEN -(FailureWindow + 2) ELSE -Last(s.recent)

\* The least active entries go when the table is over its hard limit.
Capped(table) ==
    IF Cardinality(DOMAIN table) <= HardLimit THEN {table}
    ELSE {Restrict(table, kept) : kept \in
            {k \in SUBSET DOMAIN table :
                /\ Cardinality(k) = HardLimit
                /\ \A in \in k, out \in DOMAIN table \ k :
                      Activity(table[out]) <= Activity(table[in])}}

Trimmed(table) ==
    Capped(IF Cardinality(DOMAIN table) > SoftLimit THEN Swept(table) ELSE table)

\* What one more failure makes of an entry: at the limit of attempts the
\* address is blocked and the count starts again.
Failing(s, attempts) ==
    LET recent == Append(Pruned(s).recent, 0) IN
    IF Len(recent) >= attempts THEN [recent |-> <<>>, until |-> BlockTime]
                               ELSE [Pruned(s) EXCEPT !.recent = recent]

AfterFailure(table, a, attempts) ==
    Trimmed(WithState(table, a, Failing(StateOf(table, a), attempts)))

\* A tick of the clock.
Aged(table) ==
    [a \in DOMAIN table |->
        [recent |-> [i \in DOMAIN table[a].recent |->
                        IF table[a].recent[i] > FailureWindow
                        THEN table[a].recent[i] ELSE table[a].recent[i] + 1],
         until  |-> IF table[a].until > 0 THEN table[a].until - 1
                                          ELSE table[a].until]]
=============================================================================
