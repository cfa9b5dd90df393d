-------------------------- MODULE MCReleaseCatalog --------------------------
(* ReleaseCatalog with two servers, and tasks for both and for all with a tag. *)
EXTENDS ReleaseCatalog

MCPlaces == {[server |-> 1, labels |-> {"test"}], [server |-> 2, labels |-> {"test", "cn"}]}
MCSelectors == {[servers |-> {}, tags |-> {}, all |-> TRUE],
                [servers |-> {1, 2}, tags |-> {"test", "cn"}, all |-> FALSE]}
=============================================================================
