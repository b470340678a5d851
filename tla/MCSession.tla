----------------------------- MODULE MCSession -----------------------------
(* An instance of Session: an instrument, an effect and a plugin that cannot
   be hosted; strips of two slots. *)
EXTENDS Session

MCDescriptors ==
  [Synth |-> [ins |-> <<"event">>, outs |-> <<"audio", "audio">>, controls |-> 1,
              category |-> "Instrument", hosted |-> TRUE],
   Echo |-> [ins |-> <<"audio">>, outs |-> <<"audio", "audio">>, controls |-> 1,
             category |-> "Delay", hosted |-> TRUE],
   Lost |-> [ins |-> <<>>, outs |-> <<"audio">>, controls |-> 0,
             category |-> "Delay", hosted |-> FALSE]]
=============================================================================
