--------------------------- MODULE WebClientProperties ---------------------------
(***************************************************************************)
(* What the web client keeps to between the page and the server, and what  *)
(* its comments say that it does not.                                      *)
(***************************************************************************)
EXTENDS WebClient

\* Nothing of the demo account is ever sent or stored, also where the demo button is
\* pressed by a user whose session is alive but whose account could not be loaded.
DemoIsNotSaved ==
  \A document \in Range(puts) \cup {stored} :
    /\ document.note # "demo"
    /\ \A c \in Columns : "demo" \notin Range(document.items[c])

\* What the page shows is what the server has stored, once no PUT is on its way,
\* unless a change that is sent only with the next one was made, a save was dropped
\* while cooling down, a PUT failed, or two PUTs were on their way together.
ShownIsStored ==
  Shown /\ permit /\ puts = <<>> /\ gap = "none" => stored = Document

\* The amount of the savings, sent or stored, is right in the currency sent with it,
\* through any series of conversions by either page, unless a currency was chosen
\* within the cooling-down of initStatisticPage or without rates.
SavingsStayTrue ==
  \A document \in Range(puts) \cup {stored} : ~spoilt => document.money.of = document.label

\* What the page shows is stored in the end, although saves are dropped, lost and
\* overtaken: when the user stays with the account and keeps pressing the save button,
\* on a page with items in both columns, numbers for sums and savings, and the second
\* expense in its place.
SavedInTheEnd ==
  <>[](/\ page \in {"settings", "statistics"}
       /\ permit /\ session /\ filled /\ numeric /\ money.sum # "null"
       /\ second # "gone" /\ \A c \in Columns : items[c] # <<>>)
  => <>[](stored = Document)

--------------------------------------------------------------------------------
\* A claim of the sources.

\* main.js:861 "Please, add at least one item for each column": with an item in each
\* column on the settings page, the user who keeps pressing the save button
\* comes to the statistics page.
OneItemIsEnough ==
  []<>~(page = "settings" /\ filled /\ \A c \in Columns : items[c] # <<>>)
================================================================================
