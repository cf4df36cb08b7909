---------------------------- MODULE MCPostprocess ----------------------------
(* Two pairs of files that belong together, linked within the pair *)
EXTENDS Postprocess

MCClusters == {{1, 2}, {3, 4}}
MCLinks == {<<1, 2>>, <<3, 4>>}
============================================================================
