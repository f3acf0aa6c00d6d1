----------------------------- MODULE BulkStream -----------------------------
(***************************************************************************)
(* What SequencedBulkQueue promises its users: a growing stream of numbered *)
(* bulks, some of which are overwritten, and readers each of which gets, in *)
(* order, the first bulk at or after the one it asks for that has not been  *)
(* overwritten.  When memory is released, who is waiting, who is woken and  *)
(* by which thread the bulk is handed over cannot be seen from here.        *)
(***************************************************************************)
EXTENDS Integers, FiniteSets, FiniteSetsExt

CONSTANT Readers

VARIABLES
  pushed,       \* number of bulks published
  overwritten,  \* bulks withdrawn before everybody had read them
  joined,       \* the readers
  first,        \* the first bulk each reader can see
  next,         \* the number each reader asks for
  given_up      \* the bulks each reader chose not to ask for

streamVars == <<pushed, overwritten, joined, first, next, given_up>>

SInit ==
  /\ pushed = 0 /\ overwritten = {} /\ joined = {}
  /\ first = [r \in Readers |-> 0] /\ next = [r \in Readers |-> 0]
  /\ given_up = [r \in Readers |-> {}]

\* the bulks reader r can still get when p bulks are published
Available(r, p) ==
  {c \in first[r] .. p - 1 : c >= next[r] /\ c \notin overwritten}

\* the readers of S each get the first bulk available to them
Serve(S, p) ==
  /\ S \subseteq joined
  /\ \A r \in S : Available(r, p) # {}
  /\ next' = [r \in Readers |-> IF r \in S THEN Min(Available(r, p)) + 1 ELSE next[r]]

\* a bulk is published, and goes at once to the readers S that wait for it
Publish ==
  /\ pushed' = pushed + 1
  /\ \E S \in SUBSET Readers : Serve(S, pushed + 1)
  /\ UNCHANGED <<overwritten, joined, first, given_up>>

Take ==
  /\ \E S \in SUBSET Readers : S # {} /\ Serve(S, pushed)
  /\ UNCHANGED <<pushed, overwritten, joined, first, given_up>>

\* a bulk is withdrawn that lies in the part of the stream some reader sees
Overwrite ==
  /\ \E r \in joined : \E c \in first[r] .. pushed - 1 :
       /\ c \notin overwritten
       /\ overwritten' = overwritten \cup {c}
  /\ UNCHANGED <<pushed, joined, first, next, given_up>>

\* a newcomer sees what is left of the stream from some bulk on
Join(r) ==
  /\ r \notin joined
  /\ joined' = joined \cup {r}
  /\ \E c \in 0 .. pushed : first' = [first EXCEPT ![r] = c]
  /\ UNCHANGED <<pushed, overwritten, next, given_up>>

\* the only way past a bulk that is there is to say so
PassOver(r) ==
  /\ r \in joined
  /\ next'[r] >= next[r]
  /\ next' = [next EXCEPT ![r] = next'[r]]
  /\ given_up' = [given_up EXCEPT ![r] = @ \cup next[r] .. next'[r] - 1]
  /\ UNCHANGED <<pushed, overwritten, joined, first>>

Leave(r) ==
  /\ joined' = joined \ {r}
  /\ UNCHANGED <<pushed, overwritten, first, next, given_up>>

SNext ==
  \/ Publish \/ Take \/ Overwrite
  \/ \E r \in Readers : Join(r) \/ PassOver(r) \/ Leave(r)

StreamSpec == SInit /\ [][SNext]_streamVars
=============================================================================
