------------------------------ MODULE References ------------------------------
(***************************************************************************)
(* Previews of the messages and events that an explanation cites: the      *)
(* links in a text (MarkdownDivWithReferences.tsx), which references have  *)
(* one (refs.tsx), and the popover that a link opens while the mouse rests *)
(* on it (PopOver.tsx).  Which popover is open is one field of the store;  *)
(* each text has a popover of its own with two timers: one until it shows, *)
(* one until it goes after the mouse left the link.                        *)
(***************************************************************************)
EXTENDS Naturals, FiniteSets

CONSTANTS Texts,           \* the texts on the page
          Cited,           \* of each text the ids that it cites
          InInput,         \* ids of the messages and events of the input
          MaxMoves         \* bound: what the mouse does

None == "none"
Ids == UNION {Cited[t] : t \in Texts}
Assumptions == DOMAIN Cited = Texts /\ None \notin Ids /\ MaxMoves \in Nat

VARIABLES mouse,           \* where it is
          showingRefPopover,
          currentRef,      \* of each text the link its popover is for, or None
          shouldShow,      \* of each popover: its delay is over
          hoverTimer, dismissalTimer, isOver,
          rendered,        \* the text has become HTML, with its links
          attached,        \* the links of the text listen to the mouse
          inputLoaded,     \* the previews are known
          leftLink,        \* the link whose leaving started the dismissal
          moves

popVars == <<showingRefPopover, currentRef, shouldShow, hoverTimer, dismissalTimer, isOver, leftLink>>
textVars == <<rendered, attached, inputLoaded>>
vars == <<mouse, popVars, textVars, moves>>

Away == <<"away">>
On(t, id) == <<"link", t, id>>
Over(t) == <<"popover", t>>
Links == {On(t, id) : t \in Texts, id \in Ids}

TypeOK ==
  /\ mouse \in {Away} \cup Links \cup {Over(t) : t \in Texts}
  /\ showingRefPopover \in Ids \cup {None}
  /\ currentRef \in [Texts -> Ids \cup {None}]
  /\ {shouldShow, hoverTimer, dismissalTimer, isOver, rendered, attached} \subseteq [Texts -> BOOLEAN]
  /\ leftLink \in [Texts -> Ids \cup {None}]

Off == [t \in Texts |-> FALSE]
Init ==
  /\ mouse = Away /\ showingRefPopover = None
  /\ currentRef = [t \in Texts |-> None] /\ leftLink = [t \in Texts |-> None]
  /\ shouldShow = Off /\ hoverTimer = Off /\ dismissalTimer = Off /\ isOver = Off
  \* A text that was rendered before is HTML at once, and its links are found.
  /\ rendered \in [Texts -> BOOLEAN] /\ attached = rendered
  /\ inputLoaded \in BOOLEAN /\ moves = 0

IsOpen(t) == currentRef[t] # None /\ currentRef[t] = showingRefPopover
Visible(t) == IsOpen(t) /\ shouldShow[t]
HasPreview(id) == inputLoaded /\ id \in InInput      \* referenceTable

\* The popovers as they are once their effects ran: one that is not open has no timer, and
\* one whose link went is gone.  `moved` is the text whose popover got another link: its
\* timers are cleared and the delay begins.
Timers(open, moved, cleared, hover, dismissal) ==
  /\ hoverTimer' = [t \in Texts |-> open[t] /\ (t = moved \/ hover[t])]
  /\ dismissalTimer' = [t \in Texts |-> open[t] /\ t # cleared /\ dismissal[t]]
\* (Faulty variant: the cleanup leaves the dismissal running.)
EffectsLeak(ref, shown, moved) ==
  LET open == [t \in Texts |-> ref[t] # None /\ ref[t] = shown]
  IN  /\ Timers(open, moved, None, hoverTimer, dismissalTimer)
      /\ shouldShow' = [t \in Texts |-> open[t] /\ shouldShow[t]]
      /\ isOver' = [t \in Texts |-> ref[t] # None /\ isOver[t]]
Effects(ref, shown, moved) ==
  LET open == [t \in Texts |-> ref[t] # None /\ ref[t] = shown]
  IN  /\ Timers(open, moved, moved, hoverTimer, dismissalTimer)
      /\ shouldShow' = [t \in Texts |-> open[t] /\ shouldShow[t]]
      /\ isOver' = [t \in Texts |-> ref[t] # None /\ isOver[t]]

\* setIsOpen(false) of a text's popover, which clears the field of the store for all.
Close(t) ==
  /\ showingRefPopover' = None /\ currentRef' = [currentRef EXCEPT ![t] = None]
  /\ Effects([currentRef EXCEPT ![t] = None], None, None)
  /\ UNCHANGED leftLink

-----------------------------------------------------------------------------
(* The mouse *)

Move == moves < MaxMoves /\ moves' = moves + 1 /\ UNCHANGED textVars

\* handleMouseEnter of a link, then the listener of the popover that is open for it
EnterLink(t, id) ==
  /\ Move /\ mouse = Away /\ rendered[t] /\ mouse' = On(t, id) /\ UNCHANGED leftLink
  /\ IF ~attached[t] \/ ~HasPreview(id)
     THEN UNCHANGED <<showingRefPopover, currentRef, shouldShow, hoverTimer, dismissalTimer, isOver>>
     ELSE /\ currentRef' = [currentRef EXCEPT ![t] = id] /\ showingRefPopover' = id
          /\ IF IsOpen(t) /\ currentRef[t] = id
             THEN /\ hoverTimer' = [hoverTimer EXCEPT ![t] = TRUE]
                  /\ UNCHANGED <<shouldShow, dismissalTimer, isOver>>
             ELSE Effects([currentRef EXCEPT ![t] = id], id, t)
LeaveLink ==
  /\ Move /\ mouse' = Away
  /\ \E t \in Texts, id \in Ids :
       /\ mouse = On(t, id)
       /\ IF IsOpen(t) /\ currentRef[t] = id
          THEN /\ hoverTimer' = [hoverTimer EXCEPT ![t] = FALSE]
               /\ dismissalTimer' = [dismissalTimer EXCEPT ![t] = TRUE]
               /\ leftLink' = [leftLink EXCEPT ![t] = id]
          ELSE UNCHANGED <<hoverTimer, dismissalTimer, leftLink>>
  /\ UNCHANGED <<showingRefPopover, currentRef, shouldShow, isOver>>
\* handleClick of a link: the popover that is pending or open goes.
ClickLink ==
  /\ Move /\ UNCHANGED mouse
  /\ \E t \in Texts, id \in Ids : mouse = On(t, id) /\ attached[t] /\ Close(t)
EnterPopover(t) ==
  /\ Move /\ mouse = Away /\ Visible(t) /\ mouse' = Over(t)
  /\ isOver' = [isOver EXCEPT ![t] = TRUE]
  /\ hoverTimer' = [hoverTimer EXCEPT ![t] = FALSE]
  /\ dismissalTimer' = [dismissalTimer EXCEPT ![t] = FALSE]
  /\ UNCHANGED <<showingRefPopover, currentRef, shouldShow, leftLink>>
LeavePopover(t) == Move /\ mouse = Over(t) /\ mouse' = Away /\ Close(t)
\* A button pressed outside a popover that is open (it is on the page, or it has no effect)
PressOutside(t) ==
  /\ Move /\ mouse # Over(t) /\ Visible(t) /\ Close(t) /\ UNCHANGED mouse

-----------------------------------------------------------------------------
(* The timers and the texts *)

\* The delay is longer than the dismissal's, and began later than one that is pending.
Shows(t) ==
  /\ hoverTimer[t] /\ (\A u \in Texts : ~dismissalTimer[u])
  /\ hoverTimer' = [hoverTimer EXCEPT ![t] = FALSE]
  /\ shouldShow' = [shouldShow EXCEPT ![t] = TRUE]
  /\ UNCHANGED <<mouse, showingRefPopover, currentRef, dismissalTimer, isOver, leftLink, textVars, moves>>
Dismissed(t) ==
  /\ dismissalTimer[t] /\ UNCHANGED <<mouse, textVars, moves>>
  /\ IF isOver[t]
     THEN /\ dismissalTimer' = [dismissalTimer EXCEPT ![t] = FALSE]
          /\ UNCHANGED <<showingRefPopover, currentRef, shouldShow, hoverTimer, isOver, leftLink>>
     ELSE Close(t)

\* The HTML is put in place by the text itself: nobody looks for its links.
BecomesHtml(t) ==
  /\ ~rendered[t] /\ rendered' = [rendered EXCEPT ![t] = TRUE]
  /\ UNCHANGED <<mouse, popVars, attached, inputLoaded, moves>>
\* The page renders again; the references are computed anew, so the links are looked for.
PageRenders ==
  /\ attached # rendered /\ attached' = rendered
  /\ UNCHANGED <<mouse, popVars, rendered, inputLoaded, moves>>
InputArrives ==
  /\ ~inputLoaded /\ inputLoaded' = TRUE /\ attached' = rendered
  /\ UNCHANGED <<mouse, popVars, rendered, moves>>

Next ==
  \/ (\E t \in Texts : \E id \in Cited[t] : EnterLink(t, id)) \/ LeaveLink \/ ClickLink
  \/ \E t \in Texts : \/ EnterPopover(t) \/ LeavePopover(t) \/ PressOutside(t)
                      \/ Shows(t) \/ Dismissed(t) \/ BecomesHtml(t)
  \/ PageRenders \/ InputArrives
Spec == Init /\ [][Next]_vars

-----------------------------------------------------------------------------
(* Properties *)

\* When the mouse is elsewhere and every timer has run, no popover is left on the page
\* (handleMouseLeave, handlePopoverMouseLeave).
AwayMeansClosed ==
  (mouse = Away /\ \A t \in Texts : ~hoverTimer[t] /\ ~dismissalTimer[t])
  => \A t \in Texts : ~Visible(t)

\* Two popovers are open only for a message that two texts cite (popoverKey).
OnePopover ==
  \A t, u \in Texts : Visible(t) /\ Visible(u) /\ t # u =>
    currentRef[t] = currentRef[u] /\ currentRef[t] \in Cited[t] \cap Cited[u]

\* A popover does not go because of a link that the mouse left before for another one; it
\* does when the mouse came back to that very reference (handleMouseMove does not stop the
\* dismissal).
OnlyLeftIsDismissed ==
  \A t \in Texts : Dismissed(t) /\ showingRefPopover' # showingRefPopover =>
    \A u \in Texts, id \in Ids :
      mouse = On(u, id) /\ currentRef[u] = id /\ IsOpen(u) => id = leftLink[t]

\* The popover under the mouse stays until the mouse leaves it or a button is pressed, unless
\* the message's other citation was passed on the way to it.
StaysUnderMouse ==
  \A t \in Texts :
    Visible(t) /\ mouse = Over(t) /\ mouse' = mouse /\ moves' = moves
      /\ (\A u \in Texts \ {t} : currentRef[u] # currentRef[t])
    => Visible(t)'
=============================================================================
