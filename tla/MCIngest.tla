------------------------------- MODULE MCIngest ------------------------------
(***************************************************************************)
(* Two runs of the loader over short files: batches and a channel of two,  *)
(* records of every kind, a repeated id, and a parser error behind a       *)
(* survivor; the table is empty or holds rows, one of which no file has.   *)
(***************************************************************************)
EXTENDS Ingest

MCId == 1..4
MCVersion == {"v1", "v2"}

Rec(kind, id, version) == [kind |-> kind, id |-> id, version |-> version]

Whole   == <<Rec("keep", 1, "v2"), Rec("geo", 4, "v1"), Rec("bucketed", 2, "v1"),
             Rec("keep", 3, "v1")>>
Dirty   == <<Rec("unparseable", 4, "v1"), Rec("keep", 2, "v2"), Rec("noAddress", 3, "v1"),
             Rec("keep", 1, "v1"), Rec("category", 3, "v1")>>
Broken  == <<Rec("keep", 1, "v2"), Rec("broken", 4, "v1"), Rec("keep", 3, "v2")>>
Repeats == <<Rec("keep", 1, "v1"), Rec("keep", 2, "v1"), Rec("keep", 1, "v2")>>

MCFeeds == {Whole, Dirty, Broken, Repeats, <<>>}

Empty == [x \in MCId |-> Absent]
Filled == [Empty EXCEPT ![1] = [version |-> "v1", created |-> 0, embedding |-> "v1"],
                        ![4] = [version |-> "v1", created |-> 0, embedding |-> Null]]
MCTables == {Empty, Filled}
=============================================================================
