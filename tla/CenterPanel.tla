---------------------------- MODULE CenterPanel ----------------------------
(***************************************************************************)
(* The open center panel (bin/daemon/src/center.rs): where its cards are,  *)
(* what the cursor rests on, how cards unfold under it, what is drawn and  *)
(* what a click does.  Lengths are whole numbers.  A panel that slides,    *)
(* and what becomes of it and of the store, is DaemonApp.                  *)
(***************************************************************************)
EXTENDS Integers, Sequences, FiniteSets, SequencesExt

CONSTANTS
  Notes,      \* the notifications that may be stored
  Folded,     \* Folded[n]: the height of its folded card, buttons included
  Extra,      \* Extra[n]: what it grows by per frame of unfolding
  Icons,      \* those with an icon (ensure_icons, before every frame)
  Widths,     \* Widths[n]: the widths of its buttons, from left to right
  ContentX,   \* where a card's content begins: paddings and status bar
  IconSpace,  \* ICON_SIZE + 8
  CardSpan, ClearSpan, CloseSpan,  \* the columns of the cards, Clear All, the X
  Header, Gap, Padding, ButtonH, ButtonGap,
  View,       \* the height of the window below the header
  Frames,     \* frames a card takes to unfold
  Spots,      \* where the user puts the cursor: <<across, down>>
  Wheel,      \* how far one turn of the wheel scrolls
  MaxMoves    \* bound: moves, turns, clicks, changes by others

ASSUME PanelAssumption ==
  /\ IsFiniteSet(Notes)
  /\ {Header, Gap, Padding, ButtonH, ButtonGap, View, Wheel, MaxMoves} \subseteq Nat
  /\ {ContentX, IconSpace} \subseteq Nat /\ Icons \subseteq Notes
  /\ Frames \in Nat \ {0}
  /\ \A n \in Notes : /\ Folded[n] \in Nat \ {0} /\ Extra[n] \in Nat
                       /\ Widths[n] \in Seq(Nat)
  /\ \A s \in Spots : s[1] \in Int /\ s[2] \in Int

VARIABLES
  rows,      \* the store's list
  scroll,    \* scroll_offset
  content,   \* content_height
  unfold,    \* expand_states, in frames
  cursor,    \* cursor_pos
  over,      \* hovered_close, _clear_all, _action, _card_id
  picture,   \* history: the layout that is on the screen: rows, scroll, unfold
  moved,     \* history: the last frame unfolded, folded or scrolled something
  stale,     \* history: cursor, rows or scroll changed since the last frame,
             \* or that was not presented
  moves

panelVars == <<rows, scroll, content, unfold, cursor, over, picture, moved, stale,
               moves>>

Nothing == <<"nothing", "", 0>>
Away == <<-1, -1>>
Larger(a, b) == IF a > b THEN a ELSE b
Smaller(a, b) == IF a < b THEN a ELSE b

(* The height of each card, and where each begins: the cards before the    *)
(* i-th are laid one under the other.                                      *)
Height(n, u) == Folded[n] + Extra[n] * u[n]

(* Mutant: the cards are laid out as if all of them were folded.           *)
AboveFolded(rs, u, i) ==
  LET bottom[j \in 0..Len(rs)] ==
        IF j = 0 THEN 0 ELSE bottom[j - 1] + Folded[rs[j]] + Gap
  IN bottom[i - 1]

Above(rs, u, i) ==
  LET bottom[j \in 0..Len(rs)] ==
        IF j = 0 THEN 0 ELSE bottom[j - 1] + Height(rs[j], u) + Gap
  IN bottom[i - 1]
Top(rs, sc, u, i) == Header - sc + Above(rs, u, i)

(* clamp_scroll                                                            *)
Clamp(sc, height) == Larger(0, Smaller(sc, Larger(0, height - View)))

PanelTypeOK ==
  /\ rows \in Seq(Notes) /\ IsInjective(rows)
  /\ {scroll, content} \subseteq Nat
  /\ unfold \in [Notes -> 0..Frames]
  /\ cursor \in Spots \cup {Away}
  /\ over[1] \in {"nothing", "close", "clear", "button", "card"}
  /\ over[1] = "button" => over[3] \in DOMAIN Widths[over[2]]
  /\ {stale, moved} \subseteq BOOLEAN /\ moves \in 0..MaxMoves

PanelInit ==
  /\ rows \in {<<>>} \cup {<<n>> : n \in Notes} \cup SetToSeqs(Notes)
  /\ scroll = 0 /\ content = 0
  /\ unfold = [n \in Notes |-> 0]
  /\ cursor = Away /\ over = Nothing
  /\ picture = [rows |-> <<>>, scroll |-> 0, unfold |-> unfold]
  /\ moved = FALSE /\ stale = TRUE /\ moves = 0
-----------------------------------------------------------------------------
(* The cards that hold a point, of a panel laid out this way.              *)
CardsAt(rs, sc, u, at) ==
  {i \in DOMAIN rs : /\ at[1] \in CardSpan
                     /\ Top(rs, sc, u, i) <= at[2]
                     /\ at[2] < Top(rs, sc, u, i) + Height(rs[i], u)}

(* The buttons that hold it, of a card that ends at `bottom` and whose row *)
(* of buttons begins at `left`.                                            *)
ButtonsAt(n, left, bottom, at) ==
  LET edge[k \in DOMAIN Widths[n]] ==
        IF k = 1 THEN left ELSE edge[k - 1] + Widths[n][k - 1] + ButtonGap
  IN {k \in DOMAIN Widths[n] :
        /\ edge[k] <= at[1] /\ at[1] <= edge[k] + Widths[n][k]
        /\ at[2] \in (bottom - Padding - ButtonH)..(bottom - Padding)}

(* What of the i-th card, with its buttons from `left` on.                 *)
OnCard(rs, sc, u, i, left, at) ==
  LET hits == ButtonsAt(rs[i], left, Top(rs, sc, u, i) + Height(rs[i], u), at)
  IN IF hits = {} THEN <<"card", rs[i], 0>>
     ELSE <<"button", rs[i], CHOOSE k \in hits : \A l \in hits : k <= l>>

OnHeader(rs, at) ==
  IF at[2] \notin 1..Header - 1 THEN Nothing
  ELSE IF at[1] \in CloseSpan THEN <<"close", "", 0>>
  ELSE IF at[1] \in ClearSpan /\ rs # <<>> THEN <<"clear", "", 0>> ELSE Nothing

(* update_hover: the header first, cards only below it; the row of buttons *)
(* begins where the content does, whether or not the card has an icon.     *)
Under(rs, sc, u, at) ==
  IF at[2] < Header THEN OnHeader(rs, at)
  ELSE LET cards == CardsAt(rs, sc, u, at)
       IN IF cards = {} THEN Nothing
          ELSE OnCard(rs, sc, u, CHOOSE i \in cards : TRUE, ContentX, at)

(* draw_header, then draw_center_card: a card that is scrolled over the    *)
(* header covers it, and an icon moves the row of buttons to the right.    *)
Pictured(rs, sc, u, at) ==
  LET cards == CardsAt(rs, sc, u, at)
      i == CHOOSE j \in cards : TRUE
  IN IF cards = {} THEN OnHeader(rs, at)
     ELSE OnCard(rs, sc, u, i,
                 ContentX + (IF rs[i] \in Icons THEN IconSpace ELSE 0), at)

(* Mutant: the hover is found anew only when the list changed.             *)
DrawCachingHover(presented) ==
  LET aim == IF rows = picture.rows THEN over ELSE Under(rows, scroll, unfold, cursor)
  IN /\ over' = aim /\ UNCHANGED unfold
     /\ content' = Above(rows, unfold, Len(rows) + 1)
     /\ scroll' = Clamp(scroll, content')
     /\ picture' = [rows |-> rows, scroll |-> scroll', unfold |-> unfold]
     /\ moved' = (scroll' # scroll)
     /\ stale' = ~presented
     /\ UNCHANGED <<rows, cursor, moves>>

(* update_expand: a step of unfolding for the card under the cursor, if    *)
(* its message overflows, a step of folding for the others.                *)
Grown(aim) ==
  LET Goal(n) == IF aim[1] \in {"card", "button"} /\ aim[2] = n /\ Extra[n] > 0
                 THEN Frames ELSE 0
  IN [n \in Notes |->
        CASE n \notin Range(rows) -> 0
          [] n \in Range(rows) /\ unfold[n] < Goal(n) -> unfold[n] + 1
          [] n \in Range(rows) /\ unfold[n] > Goal(n) -> unfold[n] - 1
          [] OTHER -> unfold[n]]

(* render: the hover is found in the layout as it was, then the cards      *)
(* unfold or fold by a step, then the content is measured, the scroll      *)
(* clamped (not if the list is empty) and all of it drawn, and shown if    *)
(* the surface has a texture for it.  Any event may bring a frame; none is *)
(* asked for because a card is still unfolding.                            *)
Draw(presented) ==
  LET aim == Under(rows, scroll, unfold, cursor)
  IN /\ over' = aim /\ unfold' = Grown(aim)
     /\ IF rows = <<>> THEN UNCHANGED <<scroll, content>>
        ELSE /\ content' = Above(rows, unfold', Len(rows) + 1)
             /\ scroll' = Clamp(scroll, content')
     /\ picture' = IF presented
                   THEN [rows |-> rows, scroll |-> scroll', unfold |-> unfold']
                   ELSE picture
     /\ moved' = (scroll' # scroll \/ unfold' # unfold)
     /\ stale' = ~presented
     /\ UNCHANGED <<rows, cursor, moves>>

PanelInput == moves < MaxMoves /\ moves' = moves + 1

MoveCursor(s) ==
  /\ cursor' = s /\ stale' = TRUE /\ PanelInput
  /\ UNCHANGED <<rows, scroll, content, unfold, over, picture, moved>>

(* on_scroll clamps with the content of the last frame.                    *)
TurnWheel(down) ==
  /\ scroll' = Clamp(IF down THEN scroll + Wheel ELSE scroll - Wheel, content)
  /\ stale' = TRUE /\ PanelInput
  /\ UNCHANGED <<rows, content, unfold, cursor, over, picture, moved>>

(* remove: the first entry found goes, if there is one.                    *)
RowOf(n) == CHOOSE i \in DOMAIN rows : rows[i] = n
Without(n) == IF n \in Range(rows) THEN RemoveAt(rows, RowOf(n)) ELSE rows

(* on_click: what the last frame found, wherever the cursor has gone since *)
(* (a card also wants the cursor below the header).  A card is removed, a  *)
(* button's action may remove it, Clear All empties the list.              *)
Click ==
  /\ PanelInput /\ over[1] \in {"clear", "card", "button"} /\ stale' = TRUE
  /\ over[1] = "card" => cursor[2] > Header
  /\ \/ over[1] = "clear" /\ rows' = <<>>
     \/ over[1] \in {"card", "button"} /\ rows' = Without(over[2])
     \/ over[1] = "button" /\ UNCHANGED rows
  /\ UNCHANGED <<scroll, content, unfold, cursor, over, picture, moved>>

(* Others change the store: an arrival, with an id no expansion is kept    *)
(* for, or a removal.                                                      *)
StoreChanges ==
  /\ PanelInput /\ stale' = TRUE
  /\ \/ \E n \in Notes \ Range(rows) :
          rows' = Append(rows, n) /\ unfold' = [unfold EXCEPT ![n] = 0]
     \/ \E n \in Range(rows) : rows' = Without(n) /\ UNCHANGED unfold
  /\ UNCHANGED <<scroll, content, cursor, over, picture, moved>>

PanelNext ==
  \/ \E presented \in BOOLEAN : Draw(presented)
  \/ Click \/ StoreChanges
  \/ \E s \in Spots \cup {Away} : MoveCursor(s)
  \/ \E down \in BOOLEAN : TurnWheel(down)

PanelSpec == PanelInit /\ [][PanelNext]_panelVars
-----------------------------------------------------------------------------
Drawn == Pictured(picture.rows, picture.scroll, picture.unfold, cursor)

(* A click acts on the card that the picture has under the cursor, and on  *)
(* its very button or its body if the card has no icon; one on Clear All   *)
(* is one on what is drawn, or on a card that covers it.  Provided that    *)
(* the cursor and the list are as they were for the last frame and that    *)
(* frame was shown and moved no card: the hover is found before the cards  *)
(* are moved, and nothing asks for the frame that would put it right       *)
(* (render, on_click).                                                     *)
ClickHitsTheCard ==
  [][Click /\ ~stale /\ ~moved =>
       \/ over = Drawn
       \/ Drawn[1] \in {"card", "button"} /\
          \/ over[1] = "clear"
          \/ over[1] \in {"card", "button"} /\ over[2] = Drawn[2] /\ over[2] \in Icons]_panelVars

(* However cards unfold, scroll and leave, no point of the panel is on two *)
(* cards: the search of update_hover, which stops at the first card it     *)
(* finds, and the drawing, which runs through all of them, mean the same.  *)
NoCardOverlaps ==
  \A s \in Spots : Cardinality(CardsAt(rows, scroll, unfold, s)) <= 1

=============================================================================
