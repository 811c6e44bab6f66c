--------------------------- MODULE QueueRefinement --------------------------
(* CommandQueue implements SerialQueue: _pending is the line, _current the  *)
(* one being served, and over are the dropped commands and the ones whose   *)
(* throwaway thread was started and that the worker has released, whether   *)
(* or not that thread is still inside fn.                                   *)
EXTENDS CommandQueue

Released == {c \in Cmd : callPc[c] # "none" /\ c # current}

Serial == INSTANCE SerialQueue WITH
            line <- pending, serving <- current, over <- dropped \union Released

(* The queue behaves like SerialQueue: one line, one in service, served in  *)
(* order, nothing served after it was told it is over.                      *)
ImplementsSerialQueue == Serial!SafeSpec

(* As long as no fn runs for ever, service neither idles while a command    *)
(* waits nor lasts for ever.                                                *)
ImplementsSerialService == FnsEnd => Serial!Service
=============================================================================
