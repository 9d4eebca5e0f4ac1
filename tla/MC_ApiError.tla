------------------------------ MODULE MC_ApiError ------------------------------
(* Numbers of every width, four unregistered numbers (one below, one among *)
(* and two above the registered ones), and embed lists of up to two        *)
(* fields.                                                                 *)
EXTENDS ApiError

MCUnregistered == {1, 10017, 70000, 200000}

MCEmbedLists == UNION {[1..n -> {"Fields", "Timestamp"}] : n \in 0..2}

=============================================================================
