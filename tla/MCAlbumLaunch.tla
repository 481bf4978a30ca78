---------------------------- MODULE MCAlbumLaunch ----------------------------
(* AlbumLaunch on small instances: titles are model values, interchangeable *)
(* where no liveness is checked.                                            *)
EXTENDS AlbumLaunch, TLC

TitleSymmetry == Permutations(Titles)
=============================================================================
