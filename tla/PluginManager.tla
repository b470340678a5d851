---------------------------- MODULE PluginManager ----------------------------
(***************************************************************************)
(* The plugins that are found at the start (plugin_manager.c and           *)
(* lv2_create_descriptor_from_lilv) and the browser that shows them        *)
(* (browser.c).  The rows of the browser are what the user can activate,   *)
(* or drag onto the mixer, the tracklist and the slots of a channel.       *)
(* The order of the rows is left out.                                      *)
(***************************************************************************)
EXTENDS Strip

CONSTANT Instrument  \* the name of the category LV2_INSTRUMENT_PLUGIN

VARIABLES
  descriptors,  \* PLUGIN_MANAGER->plugin_descriptors
  categories,   \* PLUGIN_MANAGER->plugin_categories
  category      \* BrowserWidget.selected_category: <<name>>, or <<>>

managerVars == <<descriptors, categories>>
browserVars == <<managerVars, category>>

\* The plugins that can be hosted: an ASCII uri, a name and a port, a library that is
\* there, and no need to process in place.
Hosted(p) == Descriptors[p].hosted

\* A category that is not ASCII is warned about, and added like the others.
AddCategory(cs, p) == cs \cup {Descriptors[p].category}

ScanPlugins ==
  LET hosted == {p \in DOMAIN Descriptors : Hosted(p)}
  IN /\ descriptors' = hosted
     /\ categories' = FoldLeft(AddCategory, {}, SetToSeq(hosted))

PluginManagerNew == descriptors' = {} /\ categories' = {}
-----------------------------------------------------------------------------
BrowserNew == category' = <<>>

\* visible_func
Visible(p) == category = <<>> \/ Descriptors[p].category = category[1]

\* create_model_for_plugins and create_model_for_categories.
PluginRows == descriptors
CategoryRows == categories

\* on_drag_data_get: a row of the tree, which shows the visible ones.
DraggedDescr == {p \in PluginRows : Visible(p)}

\* on_selection_changed in the tree of categories.  A category that is not selected any
\* more remains the selected one.
SelectCategory(c) ==
  /\ c \in CategoryRows
  /\ category' = <<c>>

IsInstrument(p) == Descriptors[p].category = Instrument
=============================================================================
