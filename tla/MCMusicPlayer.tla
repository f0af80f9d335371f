---------------------------- MODULE MCMusicPlayer ----------------------------
(* MusicPlayer for TLC: cards with no file, with none that can be decoded,  *)
(* with one and with more that can.                                         *)
EXTENDS MusicPlayer

MCEnvs ==
  {{"skip", "unreadable"}, {"mode", "unreadable", "wrap"}, {"skip", "mode"},
   {"plug", "skip"}, {"plug", "mode"}, {"second", "skip"}, {"second", "plug"}}
MCCards == {<< >>, <<"bad">>, <<"bad", "good">>, <<"good", "good", "bad">>}
=============================================================================
