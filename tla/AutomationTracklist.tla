------------------------ MODULE AutomationTracklist ------------------------
(***************************************************************************)
(* The automation tracks of one track (automation_tracklist.c,             *)
(* automatable.c, the head of automation_track.c).  Every automatable of   *)
(* the channel and of its plugins is meant to have one automation track;   *)
(* the list is brought up to date each time the strip changes.             *)
(*                                                                         *)
(* An automatable is <<plugin, control>>; the fader of the channel is      *)
(* <<0, 0>>.  The selector of a lane can also store NULL in a track.       *)
(***************************************************************************)
EXTENDS Arrays, SequencesExt

Fader == <<0, 0>>
NoAutomatable == <<0, 1>>

SetAutomatable(at, a) == [at EXCEPT !.automatable = a]
AutomationTrackNew(a) == SetAutomatable([automatable |-> NoAutomatable, visible |-> FALSE], a)

AutomationTracklistNew == <<>>
\* add_automation_track hides what it adds.
AddAutomationTrack(at) == [at EXCEPT !.visible = FALSE]

\* automatable_get_automation_track: the position of the first track of a, 0 for none.
GetTrack(ats, a) == ArrayIndexOf([n \in DOMAIN ats |-> ats[n].automatable], a)

\* The tracks that are the first track of one of the automatables.
Needed(ats, automatables) ==
  LET first == {GetTrack(ats, a) : a \in Elements(automatables)}
      kept == Picked([n \in DOMAIN ats |-> n], first)
  IN [m \in DOMAIN kept |-> ats[kept[m]]]

\* An automation track, hidden, for each automatable that has none.
Missing(ats, automatables) ==
  LET without == Picked(automatables, {a \in Elements(automatables) : GetTrack(ats, a) = 0})
  IN [n \in DOMAIN without |-> AddAutomationTrack(AutomationTrackNew(without[n]))]

\* Tracks that do not belong anymore stay.
UpdateMutant(ats, automatables) == ats \o Missing(ats, automatables)

\* automation_tracklist_update: automatables are the channel's, then the plugins'.
Update(ats, automatables) ==
  LET kept == Needed(ats, automatables)
  IN kept \o Missing(kept, automatables)

\* automation_tracklist_setup: the fader's track is the only one ever made visible.
SetupTracklist(automatables) ==
  LET ats == Update(AutomationTracklistNew, automatables)
  IN [ats EXCEPT ![GetTrack(ats, Fader)].visible = TRUE]

\* automation_track_set_automatable, on the track that is shown, when there is one.
SetShown(ats, a) ==
  [n \in DOMAIN ats |->
     IF ats[n].visible THEN SetAutomatable(ats[n], a) ELSE ats[n]]
=============================================================================
