----------------------------- MODULE MCBackfill ------------------------------
(***************************************************************************)
(* Four keys in pages of two, one of them without text and one whose new   *)
(* text the embedder rejects, rows with and without a vector and with a    *)
(* stale one, two passes and up to two loads beside them.                  *)
(***************************************************************************)
EXTENDS EmbedBackfill

MCId == 1..4
MCTexts == [x \in MCId |-> CASE x = 1 -> {"a1", "a2"} [] x = 2 -> {"blank"}
                            [] x = 3 -> {"c1", "c2"} [] x = 4 -> {"d1"}]
MCVersion == UNION {MCTexts[x] : x \in MCId}
MCBlank == {"blank"}
MCRejected == {"c2"}

Rec(id, version) == [kind |-> "keep", id |-> id, version |-> version]
MCFeeds == {<<Rec(1, "a2"), Rec(3, "c2")>>, <<Rec(4, "d1"), Rec(2, "blank"), Rec(1, "a2")>>}

Has(version, embedding) == [version |-> version, created |-> 0, embedding |-> embedding]

MCTables ==
  {t \in [MCId -> {Absent, Has("a1", Null), Has("a2", "a1"), Has("blank", Null),
                   Has("c2", Null), Has("c1", "c1"), Has("d1", Null)}] :
     \A x \in MCId : t[x] # Absent => t[x].version \in MCTexts[x]}
=============================================================================
