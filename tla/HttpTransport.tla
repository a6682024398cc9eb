----------------------------- MODULE HttpTransport -----------------------------
(***************************************************************************)
(* juce_http_transport: requests that block the worker that sends them,    *)
(* and cancel(), which another thread calls to interrupt them all and to   *)
(* refuse further ones.  What happens under streamLock is one step.        *)
(***************************************************************************)
CONSTANTS
    Workers,        \* threads that send requests, each one at a time
    Transports      \* the controller has one for licensing, one for updates

VARIABLES
    on,         \* the transport each worker's request is sent on
    stream,     \* where the request stands
    active,     \* the workers whose stream cancel() can reach
    cut,        \* the workers whose stream was cancelled
    cancelled   \* transports that refuse requests

requests == <<on, stream, active, cut, cancelled>>

Stages == {"none", "made", "open", "read"}

RequestsOK ==
    /\ on \in [Workers -> Transports \cup {"none"}]
    /\ stream \in [Workers -> Stages]
    /\ active \subseteq Workers /\ cut \subseteq Workers
    /\ cancelled \subseteq Transports

NoRequests ==
    /\ on = [w \in Workers |-> "none"]
    /\ stream = [w \in Workers |-> "none"]
    /\ active = {} /\ cut = {} /\ cancelled = {}

\* send: the stream is made before anyone else can reach it.
Make(w, t) ==
    /\ stream[w] = "none"
    /\ stream' = [stream EXCEPT ![w] = "made"]
    /\ on' = [on EXCEPT ![w] = t]
    /\ UNCHANGED <<active, cut, cancelled>>

\* The stream is destroyed.
Destroy(w) ==
    /\ stream' = [stream EXCEPT ![w] = "none"]
    /\ on' = [on EXCEPT ![w] = "none"]
    /\ cut' = cut \ {w}

\* in_flight, which throws once cancel() has run.
Refused(w) == on[w] \in cancelled

Register(w) ==
    /\ stream[w] = "made"
    /\ \/ Refused(w) /\ Destroy(w) /\ UNCHANGED active
       \/ /\ ~Refused(w)
          /\ stream' = [stream EXCEPT ![w] = "open"]
          /\ active' = active \cup {w}
          /\ UNCHANGED <<on, cut>>
    /\ UNCHANGED cancelled

\* connect and the read block until the server has answered or the connection
\* timed out, which is up to others, or the stream is cancelled.
Answer(w) ==
    /\ stream[w] = "open"
    /\ stream' = [stream EXCEPT ![w] = "read"]
    /\ UNCHANGED <<on, active, cut, cancelled>>

Interrupted(w) == w \in cut /\ Answer(w)

\* Mutant: the stream goes and stays registered.
LeftRegistered(w) ==
    /\ stream[w] = "read"
    /\ Destroy(w)
    /\ UNCHANGED <<active, cancelled>>

\* ~in_flight, then the stream is destroyed.
Unregister(w) ==
    /\ stream[w] = "read"
    /\ active' = active \ {w}
    /\ Destroy(w)
    /\ UNCHANGED cancelled

\* cancel()
Cancel(t) ==
    /\ cancelled' = cancelled \cup {t}
    /\ cut' = cut \cup {w \in active : on[w] = t}
    /\ UNCHANGED <<on, stream, active>>

-----------------------------------------------------------------------------
\* cancel() reaches live streams only: it never touches one that was destroyed.
ReachesLiveStreams == \A w \in active : stream[w] \in {"open", "read"}

\* No request slips past cancel(), whether it was on its way to be registered or
\* already waiting for the server.
NoneEscapes ==
    \A w \in Workers : stream[w] \in {"open", "read"} /\ on[w] \in cancelled => w \in cut
=============================================================================
