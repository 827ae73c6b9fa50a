----------------------------- MODULE DocsViewer -----------------------------
(***************************************************************************)
(* The viewer of the documentation of a firmware (src/docs_viewer.rs).     *)
(* The terminal changes its size on its own and queues an event that says  *)
(* so; the viewer draws on the terminal as it is, and scrolls by the size  *)
(* it was last told of.                                                    *)
(***************************************************************************)
EXTENDS Naturals, Sequences

CONSTANTS
  Sizes,       \* the sizes a terminal may have
  Documents,   \* each the number of lines a text takes, by the width
  MaxPending   \* how many changes of size may be waiting for the viewer

(* A terminal with no rows makes render panic (docs_viewer.rs:197).        *)
ASSUME SizesAssumption ==
  /\ Sizes \subseteq [width : Nat, height : Nat \ {0}]
  /\ Documents \subseteq [{size.width : size \in Sizes} -> Nat]

VARIABLES
  docs,     \* the text that is shown, empty while there is none
  term,     \* the size of the terminal
  pending,  \* the changes of size the viewer has not read
  viewer    \* viewport_size, max_scroll and scroll_position

screen == <<docs, term, pending, viewer>>

SaturatingSub(a, b) == IF a > b THEN a - b ELSE 0

(* The lines of the text and those of the border around it.                *)
LineCount(text, width) == text[width] + 2
MaxScroll(text, size) == SaturatingSub(LineCount(text, size.width), size.height)

NoSize == [width |-> 0, height |-> 0]
NoViewer == [viewport_size |-> NoSize, max_scroll |-> 0, scroll_position |-> 0]
Closed == docs = <<>> /\ term = NoSize /\ pending = <<>> /\ viewer = NoViewer

Showing == docs # <<>>

Display ==
  \E text \in Documents, size \in Sizes :
    /\ docs' = text /\ term' = size /\ pending' = <<>>
    /\ viewer' = [viewport_size |-> size, max_scroll |-> MaxScroll(text, size),
                  scroll_position |-> 0]

ScrollTo(position) ==
  /\ viewer' = [viewer EXCEPT !.scroll_position = position]
  /\ UNCHANGED <<docs, term, pending>>

ScrollUp == ScrollTo(SaturatingSub(viewer.scroll_position, 1))
ScrollDown ==
  /\ viewer.scroll_position + 1 <= viewer.max_scroll
  /\ ScrollTo(viewer.scroll_position + 1)
ScrollPageUp ==
  ScrollTo(SaturatingSub(viewer.scroll_position, viewer.viewport_size.height))
ScrollPageDown ==
  LET new_position == viewer.scroll_position + viewer.viewport_size.height IN
    ScrollTo(IF new_position > viewer.max_scroll THEN viewer.max_scroll ELSE new_position)

(* The user makes the window larger or smaller.                            *)
Resized ==
  /\ Len(pending) < MaxPending
  /\ \E size \in Sizes \ {term} : term' = size /\ pending' = Append(pending, size)
  /\ UNCHANGED <<docs, viewer>>

(* Mutant: the position is kept if it was in the text before.              *)
HandleResize_before ==
  /\ pending # <<>>
  /\ LET max_scroll == MaxScroll(docs, Head(pending)) IN
       viewer' = [viewport_size |-> Head(pending), max_scroll |-> max_scroll,
                  scroll_position |-> IF viewer.scroll_position > viewer.max_scroll
                                      THEN max_scroll ELSE viewer.scroll_position]
  /\ pending' = Tail(pending)
  /\ UNCHANGED <<docs, term>>

HandleResize ==
  /\ pending # <<>>
  /\ LET max_scroll == MaxScroll(docs, Head(pending)) IN
       viewer' = [viewport_size |-> Head(pending), max_scroll |-> max_scroll,
                  scroll_position |-> IF viewer.scroll_position > max_scroll
                                      THEN max_scroll ELSE viewer.scroll_position]
  /\ pending' = Tail(pending)
  /\ UNCHANGED <<docs, term>>

(* q                                                                       *)
Quit == docs' = <<>> /\ term' = NoSize /\ pending' = <<>> /\ viewer' = NoViewer

-----------------------------------------------------------------------------
(* Once the viewer has read what is pending, the page is full of text, as  *)
(* far as there is text (docs_viewer.rs:117-124).                          *)
ShowsFullPage ==
  (Showing /\ pending = <<>>) =>
    LET lines == LineCount(docs, term.width) IN
      /\ viewer.viewport_size = term
      /\ \/ viewer.scroll_position = 0
         \/ viewer.scroll_position + term.height <= lines
=============================================================================
