------------------------------- MODULE MCMvcc -------------------------------
(***************************************************************************)
(* Mvcc over the keys 1 and 2.                                             *)
(***************************************************************************)
EXTENDS Mvcc

Row(k, x) == [id |-> k, v |-> x]
All     == [keys |-> {}, holds |-> Tuple]
WithKey(k) == [keys |-> {k}, holds |-> {x \in Tuple : x.id = k}]
WithV(x)  == [keys |-> {}, holds |-> {y \in Tuple : y.v = x}]

Predicates == {All, WithV(1)} \cup {WithKey(k) : k \in Key}

Select(p)    == [kind |-> "select", where |-> p]
Update(p, f) == [kind |-> "update", where |-> p, set |-> f]
Delete(p)    == [kind |-> "delete", where |-> p]
Insert(k, x) == [kind |-> "insert", rows |-> <<Row(k, x)>>]

SetV(x)  == [c \in {"v"} |-> x]
SetId(k) == [c \in {"id"} |-> k]

MCLoaded == <<Row(1, 1)>>

SI(p)  == [level |-> "SNAPSHOT_ISOLATION", todo |-> p]
SER(p) == [level |-> "SERIALIZABLE", todo |-> p]

Set(x)     == <<Update(WithKey(1), SetV(x))>>
SetTwice   == <<Update(WithKey(1), SetV(2)), Update(WithKey(1), SetV(1))>>
Skew       == <<Select(WithV(1)), Insert(2, 1)>>
Recreate   == <<Delete(WithKey(1)), Insert(1, 2)>>
Move       == <<Update(WithKey(1), SetId(2))>>
Read       == <<Select(All)>>

MCPrograms == {SetTwice, Skew, Recreate, Move, Read}

\* Every two of them, and three transactions where the oldest snapshot is two
\* versions old.
MCWorkloads ==
    {<<a, b>> : a, b \in {SI(p) : p \in MCPrograms} \cup {SER(p) : p \in MCPrograms}}
    \cup {<<SI(Read), SI(Set(2)), SI(Set(1))>>,
          <<SER(Skew), SI(Set(2)), SI(Set(1))>>,
          <<SI(Set(2)), SI(Read), SI(Recreate)>>}

\* A reader, and a writer of the row it looks up.
JoinWorkloads == {<<SI(Read), SI(Set(2))>>}
=============================================================================
