----------------------------- MODULE MCSession -----------------------------
(***************************************************************************)
(* Session with two rows, a few strings and both programs.                 *)
(***************************************************************************)
EXTENDS Session

Do(what)    == [do |-> what]
Write(keys) == [do |-> "write", keys |-> keys]
Set(value)  == [do |-> "set", value |-> value]

\* Statements on transactions are alone in their string.
MCStrings ==
    {<<Write(<<1>>)>>, <<Write(<<2, 1>>), Write(<<1>>)>>, <<Do("select")>>, <<Write(<<2>>), Do("bad")>>,
     <<Do("begin")>>, <<Do("commit")>>, <<Do("abort")>>, <<Do("leave")>>, <<Do("switch")>>,
     <<Set("serializable")>>, <<Set("other")>>, <<Do("begin"), Do("commit")>>}

MCModes == {[managed |-> TRUE, level |-> "SNAPSHOT_ISOLATION"]}
           \cup {[managed |-> FALSE, level |-> l] : l \in Level}
=============================================================================
