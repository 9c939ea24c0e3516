---------------------------- MODULE Navigation ------------------------------
(***************************************************************************)
(* The screens of the player's application (frontend/client/src/app.jsx):  *)
(* a stack over the open tab, kept beside the history of the browser, in   *)
(* which every screen of the stack has an entry that knows its depth.      *)
(* A step of the history is asynchronous: history.back() returns at once   *)
(* and the popstate handler runs when the browser has gone there, after    *)
(* whatever was called meanwhile.                                          *)
(***************************************************************************)
EXTENDS Naturals, Sequences, SequencesExt

CONSTANTS
  Screens,
  Patient,      \* nobody taps in the moment a step of the history takes
  MaxOpened,    \* bounds: screens opened, presses of a button of the browser,
  MaxPresses,   \* and reloads of the page
  MaxReloads

VARIABLES
  stack,        \* the screens over the tab
  stackLen,     \* stackLen.current
  entries, at,  \* the depths of the entries of the history, and the current one
  steps,        \* the steps of the history that were asked for: signed numbers
  wanted,       \* the screens a person has opened and not closed
  used          \* what the bounds have used up

navVars == <<stack, stackLen, entries, at, steps, wanted, used>>

Back == [by |-> 1, forth |-> 0]
Forth == [by |-> 0, forth |-> 1]
Go(depth) == [by |-> depth, forth |-> 0]

Init ==
  /\ stack = <<>> /\ stackLen = 0 /\ wanted = <<>>
  /\ entries = <<0>> /\ at = 1 /\ steps = <<>>
  /\ used = [opened |-> 0, presses |-> 0, reloads |-> 0]

Still == steps = <<>>
MayTap == Patient => Still
Depth == entries[at]

-----------------------------------------------------------------------------
\* push: an entry of its own; what was forward of it is gone.
Push(s) ==
  /\ MayTap /\ used.opened < MaxOpened
  /\ entries' = Append(SubSeq(entries, 1, at), stackLen + 1)
  /\ at' = at + 1
  /\ stack' = Append(stack, s)
  /\ stackLen' = Len(stack) + 1
  /\ wanted' = Append(wanted, s)
  /\ used' = [used EXCEPT !.opened = @ + 1]
  /\ UNCHANGED steps

\* pop: the history goes back, and popstate takes the screen off; without an
\* entry of its own the screen goes at once.
Pop ==
  /\ MayTap
  /\ IF stackLen > 0 /\ Depth = stackLen
       THEN /\ stackLen' = stackLen - 1
            /\ steps' = Append(steps, Back)
            /\ UNCHANGED stack
       ELSE /\ stackLen' = IF stackLen = 0 THEN 0 ELSE stackLen - 1
            /\ stack' = IF stack = <<>> THEN stack ELSE Front(stack)
            /\ UNCHANGED steps
  /\ wanted' = IF wanted = <<>> THEN wanted ELSE Front(wanted)
  /\ UNCHANGED <<entries, at, used>>

\* replace: the top screen, with no step.
Replace(s) ==
  /\ MayTap
  /\ stack # <<>> /\ wanted # <<>>
  /\ stack' = Append(Front(stack), s)
  /\ wanted' = Append(Front(wanted), s)
  /\ UNCHANGED <<stackLen, entries, at, steps, used>>

\* openTab: back over all of them.
OpenTab ==
  /\ MayTap
  /\ steps' = IF stackLen > 0 /\ Depth = stackLen THEN Append(steps, Go(stackLen)) ELSE steps
  /\ stackLen' = 0 /\ stack' = <<>> /\ wanted' = <<>>
  /\ UNCHANGED <<entries, at, used>>

-----------------------------------------------------------------------------
\* The buttons of the browser; Back closes the top screen, whatever is pending.
PressBack ==
  /\ used.presses < MaxPresses
  /\ at > 1
  /\ steps' = Append(steps, Back)
  /\ wanted' = IF wanted = <<>> THEN wanted ELSE Front(wanted)
  /\ used' = [used EXCEPT !.presses = @ + 1]
  /\ UNCHANGED <<stack, stackLen, entries, at>>

PressForward ==
  /\ MayTap /\ used.presses < MaxPresses
  /\ at < Len(entries)
  /\ steps' = Append(steps, Forth)
  /\ used' = [used EXCEPT !.presses = @ + 1]
  /\ UNCHANGED <<stack, stackLen, entries, at, wanted>>

\* onPop: the stack is cut down to the depth of the entry; an entry that is
\* deeper than the stack is one of before a reload, or forward, and is passed over.
NeverSkipped(depth) == FALSE
Skipped(depth) == depth > stackLen

Goes ==
  LET step == Head(steps)
      to == IF step.by > 0 THEN at - step.by ELSE at + step.forth IN
    /\ ~Still
    /\ IF to \notin 1..Len(entries)
         THEN steps' = Tail(steps) /\ UNCHANGED <<stack, stackLen, at>>
         ELSE /\ at' = to
              /\ IF Skipped(entries[to])
                   THEN steps' = Append(Tail(steps), Back) /\ UNCHANGED <<stack, stackLen>>
                   ELSE /\ steps' = Tail(steps)
                        /\ stackLen' = entries[to]
                        /\ stack' = IF Len(stack) > entries[to] THEN SubSeq(stack, 1, entries[to]) ELSE stack
    /\ UNCHANGED <<entries, wanted, used>>

\* The page is loaded again: the entries stay, the stack does not.
Reload ==
  /\ Still /\ used.reloads < MaxReloads
  /\ stack' = <<>> /\ stackLen' = 0 /\ wanted' = <<>>
  /\ entries' = [entries EXCEPT ![at] = 0]
  /\ used' = [used EXCEPT !.reloads = @ + 1]
  /\ UNCHANGED <<at, steps>>

Next ==
  \/ \E s \in Screens : Push(s) \/ Replace(s)
  \/ Pop \/ OpenTab \/ PressBack \/ PressForward \/ Goes \/ Reload

Spec == Init /\ [][Next]_navVars

-----------------------------------------------------------------------------
TypeOK ==
  /\ stack \in Seq(Screens) /\ wanted \in Seq(Screens) /\ stackLen \in Nat
  /\ entries \in Seq(Nat) /\ at \in DOMAIN entries
  /\ \A i \in DOMAIN steps : steps[i] \in [by : Nat, forth : {0, 1}]

\* Once the history is still, what is open is what the person has opened and not
\* closed, and the entry they are on is the one of its top screen: Back closes that
\* screen and no other, none of the presses does nothing, and the history does not
\* grow with every screen that is closed (app.jsx:174-180).
StackAndHistoryAgree == Still => stack = wanted /\ stackLen = Len(stack) /\ Depth = stackLen
=============================================================================
