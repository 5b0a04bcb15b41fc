--------------------------- MODULE MCMusicPlayer ---------------------------
(***************************************************************************)
(* Instances of MusicPlayer for TLC.                                       *)
(***************************************************************************)
EXTENDS MusicPlayer

CONSTANTS cave, field, boss

Two    == {cave, field}
Three  == {cave, field, boss}
NoneIs == {}
OneIs  == {boss}
=============================================================================
