---------------------------- MODULE StateIngress ----------------------------
(***************************************************************************)
(* StateIngressRuntime of orcUi: handlers of a dispatcher put callbacks in *)
(* a queue that the UI thread drains from a timer, and close, on the UI    *)
(* thread, waits for the dispatcher before it throws away what is left.    *)
(***************************************************************************)
EXTENDS MessageDispatcher

VARIABLES
    uiClosing,      \* _closing
    ui,             \* the UI thread: in its main loop, draining or in close
    scheduled,      \* a call of _drain_ui_queue is scheduled
    pending,        \* _pending_ui, as the ids of the messages presented
    passed,         \* workers whose handler found ~_closing
    applied         \* ids of the states the screen has shown

uiVars == <<uiClosing, ui, scheduled, pending, passed, applied>>
vars == <<dispatcherVars, uiVars>>

Init ==
    /\ InitDispatcher
    /\ uiClosing = FALSE /\ ui = "main" /\ scheduled = FALSE
    /\ pending = <<>> /\ passed = {} /\ applied = {}

-----------------------------------------------------------------------------
(* Workers: a handler presents the message, then _schedule_state.          *)

\* Mutant: the worker calls into the UI toolkit, which must be in its loop.
MayPassInLoop == ui = "main"
MayPass == TRUE

Present(w) ==
    /\ running[w] # NoMessage /\ w \notin passed /\ MayPass
    /\ IF uiClosing \/ running[w].kind = "raising"
       THEN HandlerEnds(w) /\ UNCHANGED passed
       ELSE passed' = passed \cup {w} /\ UNCHANGED dispatcherVars
    /\ UNCHANGED <<uiClosing, ui, scheduled, pending, applied>>

Put(w) ==
    /\ w \in passed /\ passed' = passed \ {w}
    /\ pending' = Append(pending, running[w].id)
    /\ HandlerEnds(w)
    /\ UNCHANGED <<uiClosing, ui, scheduled, applied>>

-----------------------------------------------------------------------------
(* The UI thread.                                                          *)

Compose ==
    /\ ui = "main" /\ \E t \in Topics : Register(t)
    /\ UNCHANGED uiVars

UiStart ==
    /\ ui = "main" /\ registered = Topics /\ Start
    /\ uiClosing' = FALSE /\ scheduled' = TRUE
    /\ UNCHANGED <<ui, pending, passed, applied>>

DrainBegins ==
    /\ ui = "main" /\ scheduled /\ scheduled' = FALSE
    /\ IF uiClosing THEN pending' = <<>> /\ UNCHANGED ui
                    ELSE ui' = "draining" /\ UNCHANGED pending
    /\ UNCHANGED <<dispatcherVars, uiClosing, passed, applied>>

Apply ==
    /\ ui = "draining" /\ pending # <<>>
    /\ pending' = Tail(pending) /\ applied' = applied \cup {Head(pending)}
    /\ UNCHANGED <<dispatcherVars, uiClosing, ui, scheduled, passed>>

\* Mutant: an empty queue is not looked at again.
RescheduledOnce == FALSE
Rescheduled == ~uiClosing

DrainEnds ==
    /\ ui = "draining" /\ pending = <<>>
    /\ ui' = "main" /\ scheduled' = Rescheduled
    /\ UNCHANGED <<dispatcherVars, uiClosing, pending, passed, applied>>

UiClose ==
    /\ ui = "main" /\ CloseBegins
    /\ uiClosing' = TRUE /\ ui' = "closing"
    /\ UNCHANGED <<scheduled, pending, passed, applied>>

\* Mutant: the queue is emptied before the dispatcher has been closed.
LeftEarly == pending
Left == <<>>

UiCloseReturns ==
    /\ ui = "closing" /\ closer = "done"
    /\ pending' = Left /\ ui' = "main"
    /\ UNCHANGED <<dispatcherVars, uiClosing, scheduled, passed, applied>>

-----------------------------------------------------------------------------
Dispatching ==
    /\ ThreadStarts \/ Receiving \/ \E w \in Workers : Take(w)
    /\ UNCHANGED uiVars

Publishing == (\E t \in Topics, k \in Kinds : Publish(t, k)) /\ UNCHANGED uiVars

Drain == DrainBegins \/ Apply \/ DrainEnds
UiClosing == (Closing /\ UNCHANGED uiVars) \/ UiCloseReturns

Next ==
    \/ Dispatching \/ Publishing \/ Compose \/ UiStart \/ Drain \/ UiClose \/ UiClosing
    \/ \E w \in Workers : Present(w) \/ Put(w)

Spec == Init /\ [][Next]_vars

\* The timer of the UI fires, the receiver polls, handlers return.
FairSpec ==
    /\ Spec /\ WF_vars(Drain) /\ WF_vars(UiClosing)
    /\ WF_vars((ThreadStarts \/ Receiving) /\ UNCHANGED uiVars)
    /\ \A w \in Workers :
          WF_vars((Take(w) /\ UNCHANGED uiVars) \/ Present(w) \/ Put(w))

-----------------------------------------------------------------------------
(* Properties.                                                             *)

\* Types of the dispatcher and of the queue between worker and UI threads.
TypeOK ==
    /\ DispatcherTypeOK /\ uiClosing \in BOOLEAN /\ ui \in {"main", "draining", "closing"}
    /\ scheduled \in BOOLEAN /\ pending \in Seq(1..MaxMessages)
    /\ passed \subseteq {w \in Workers : running[w] # NoMessage}
    /\ applied \subseteq 1..MaxMessages

\* After close no callback is left or can be put, so none touches a window
\* that has been destroyed.
NothingLeft == (ui = "main" /\ closed) => pending = <<>> /\ passed = {}

\* close on the UI thread waits for workers that never wait for the UI.
CloseCompletes == (ui = "closing") ~> (ui = "main")

\* What a handler has queued is shown unless close comes first.
Shown == \A i \in 1..MaxMessages : (\E n \in 1..Len(pending) : pending[n] = i) ~> (i \in applied \/ closed)
=============================================================================
