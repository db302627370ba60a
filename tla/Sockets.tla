-------------------------------- MODULE Sockets --------------------------------
(***************************************************************************)
(* A client and what it presents: to a route of the API (auth.py,          *)
(* deps.py), or to one of the two websockets that show the status and the  *)
(* progress of devices (ws.py, streams.py).  One websocket, from accept to *)
(* its end: a coroutine that sends, a task that reads what the client      *)
(* sends, the engine's thread that publishes events, and a client that     *)
(* leaves when it likes.  The third websocket is in ConsoleCapture.        *)
(***************************************************************************)
EXTENDS Naturals, Sequences, FiniteSets, Python

CONSTANTS
    MaxPublished,  \* events the engine publishes (bound)
    MaxWaiting     \* EventBroadcaster's max_queue

ASSUME SocketsAssumption == MaxPublished \in Nat /\ MaxWaiting \in Nat \ {0}

\* None is also an empty text, which the code treats alike; "exotic" is one that is not
\* all ASCII.
Texts == {"key", "other", "exotic", None}

Headers == [scheme : {"apikey", "bearer", "basic"}, value : Texts]

\* None is no key and no header.
ASSUME NoneIsNothing ==
    None \notin {"key", "other", "exotic", "generated"} \cup Headers \cup {1011, 4001, 4401}

VARIABLES
    setting,    \* config.http: allow_anonymous and api_key
    presents,   \* what the client presents: [header, apiKey, accessToken]
    kind,       \* which websocket it opens
    message,    \* what it presents in its first message: [apiKey, accessToken]
    phase,      \* where _serve is
    code,       \* the code the socket was closed with, 1011 by the server where _serve raised
    connected,  \* the client has not left
    drain,      \* the task _drain
    subscribed, \* the bus has its callback
    scheduled,  \* events handed to the loop, still to be delivered
    waiting,    \* its asyncio.Queue
    dropped,    \* an event was dropped from the full queue
    version,    \* of the status document: status events so far
    published,  \* events so far, those before the client came included
    told,       \* those about progress that its callback was called with
    due,        \* a second has passed since a status was sent (info)
    shownTo     \* [version, progress]: what the client has been sent

givenVars == <<setting, presents, kind, message>>
busVars == <<scheduled, waiting, dropped, version, published, told>>
socketVars == <<givenVars, phase, code, connected, drain, subscribed, busVars, due, shownTo>>

Settled == [anonymous : BOOLEAN, key : {"key", "exotic", None}]

Presented ==
    [header : {None} \cup Headers,
     apiKey : Texts, accessToken : Texts]

Messages == [apiKey : Texts, accessToken : Texts]

\* No first message, or none that presents anything.
Silent == [apiKey |-> None, accessToken |-> None]

Opening(settled, presented, before) ==
    /\ setting \in settled /\ presents \in presented
    /\ kind \in {"status", "info"} /\ message = Silent
    /\ phase = "accepted" /\ code = None /\ connected = TRUE
    /\ drain = None /\ subscribed = FALSE
    /\ scheduled = <<>> /\ waiting = <<>> /\ dropped = FALSE
    /\ version = 0 /\ published \in before /\ told = <<>>
    /\ due = TRUE /\ shownTo = [version |-> None, progress |-> <<>>]

SocketsInit == Opening(Settled, Presented, 0..MaxPublished)

-----------------------------------------------------------------------------
(* Who the client is. *)

Credential(scheme, value) == [scheme |-> scheme, value |-> value]

\* Mutant: a token is looked for in the header only.
NoTokenInQuery(p) ==
    IF p.header # None /\ p.header.scheme \in {"apikey", "bearer"}
    THEN Credential(p.header.scheme, p.header.value)
    ELSE IF p.apiKey # None THEN Credential("query", p.apiKey) ELSE Credential(None, None)

\* Credential.from_headers_and_query: a header of a known scheme, then the query.
FromHeadersAndQuery(p) ==
    IF p.header # None /\ p.header.scheme \in {"apikey", "bearer"}
    THEN Credential(p.header.scheme, p.header.value)
    ELSE IF p.apiKey # None THEN Credential("query", p.apiKey)
    ELSE IF p.accessToken # None THEN Credential("bearer", p.accessToken)
    ELSE Credential(None, None)

\* What the websocket goes by in the end: an api key of the first message, or else an access
\* token of it; or what came before it.
WithMessage(p, m) ==
    IF m.apiKey # None THEN Credential("message", m.apiKey)
    ELSE IF m.accessToken # None THEN Credential("bearer", m.accessToken)
    ELSE FromHeadersAndQuery(p)

\* make_authenticator: without a key one is generated, which no client has by chance.
Key == IF setting.key = None THEN "generated" ELSE setting.key

\* hmac.compare_digest raises a TypeError where one of its two texts is not all ASCII.
Comparable(value) == value # "exotic" /\ Key # "exotic"

\* SingleKeyAuthenticator.authenticate: a principal, which has every scope, or what it raises.
Authenticate(credential) ==
    IF setting.anonymous THEN "principal"
    ELSE IF credential.value = None THEN "AuthenticationError"
    ELSE IF ~Comparable(credential.value) THEN "TypeError"
    ELSE IF credential.value = Key THEN "principal" ELSE "AuthenticationError"

\* get_principal and require_scope: what a route answers the same client, whatever is raised.
StatusCode(p) == IF Authenticate(FromHeadersAndQuery(p)) = "principal" THEN 200 ELSE 401

\* What _authenticate does not catch leaves the handler, and the server closes the socket.
Crash == phase' = "closed" /\ code' = 1011

\* The end of _authenticate.
Admit(credential) ==
    CASE Authenticate(credential) = "principal" -> phase' = "admitted" /\ UNCHANGED code
      [] Authenticate(credential) = "AuthenticationError" ->
            phase' = "closed" /\ code' = (IF credential.scheme = "bearer" THEN 4001 ELSE 4401)
      [] OTHER -> Crash

\* _authenticate, when there is something to go by.
OnHandshake ==
    /\ phase = "accepted"
    /\ IF FromHeadersAndQuery(presents).value # None
       THEN Admit(FromHeadersAndQuery(presents))
       ELSE phase' = "awaitMessage" /\ UNCHANGED code
    /\ UNCHANGED <<givenVars, connected, drain, subscribed, busVars, due, shownTo>>

\* The first message; or ten seconds without one, a client that has left, or a message that
\* presents nothing.
FirstMessage ==
    /\ phase = "awaitMessage"
    /\ message' \in Messages
    /\ ~connected => message' = Silent
    /\ Admit(WithMessage(presents, message'))
    /\ UNCHANGED <<setting, presents, kind, connected, drain, subscribed, busVars, due, shownTo>>

\* receive_text has no text to give: a KeyError, in the place of the first message,
BinaryFirst ==
    /\ phase = "awaitMessage" /\ connected
    /\ Crash
    /\ UNCHANGED <<givenVars, connected, drain, subscribed, busVars, due, shownTo>>

\* or in _drain, which it ends.
BinaryLater ==
    /\ drain = "reads" /\ connected /\ drain' = "over"
    /\ UNCHANGED <<givenVars, phase, code, connected, subscribed, busVars, due, shownTo>>

-----------------------------------------------------------------------------
(* Events: EventBus.publish on the engine's thread, and the loop. *)

Event(what, n) == [kind |-> what, n |-> n]

\* A change of the status document, or of a device's progress, is told to the subscriber.
Publish(what) ==
    /\ published < MaxPublished
    /\ published' = published + 1
    /\ version' = IF what = "status" THEN version + 1 ELSE version
    /\ scheduled' = IF subscribed /\ (what = "status" \/ kind = "info")
                    THEN Append(scheduled, Event(what, published')) ELSE scheduled
    /\ told' = IF subscribed /\ what = "progress" /\ kind = "info"
               THEN Append(told, published') ELSE told
    /\ UNCHANGED <<givenVars, phase, code, connected, drain, subscribed, waiting,
                   dropped, due, shownTo>>

\* deliver: the oldest makes room.
Deliver ==
    /\ scheduled # <<>>
    /\ scheduled' = Tail(scheduled)
    /\ LET full == Len(waiting) = MaxWaiting
       IN /\ waiting' = Append(IF full THEN Tail(waiting) ELSE waiting, Head(scheduled))
          /\ dropped' = (dropped \/ full)
    /\ UNCHANGED <<givenVars, phase, code, connected, drain, subscribed, version,
                   published, told, due, shownTo>>

-----------------------------------------------------------------------------
(* _serve and its bodies. *)

\* The drain task is created and the queue subscribed.
Subscribe ==
    /\ phase = "admitted"
    /\ phase' = "top" /\ drain' = "reads" /\ subscribed' = TRUE
    /\ UNCHANGED <<givenVars, code, connected, busVars, due, shownTo>>

\* The client closes its side; _drain finds out by itself.
Leave ==
    /\ connected /\ connected' = FALSE
    /\ UNCHANGED <<givenVars, phase, code, drain, subscribed, busVars, due, shownTo>>

DrainEnds ==
    /\ drain = "reads" /\ ~connected /\ drain' = "over"
    /\ UNCHANGED <<givenVars, phase, code, connected, subscribed, busVars, due, shownTo>>

\* The two `finally': unsubscribe, and cancel the drain task.
Close ==
    /\ phase' = "closed" /\ drain' = "over" /\ subscribed' = FALSE
    /\ UNCHANGED <<givenVars, code, connected, busVars, due, shownTo>>

\* Mutant: the loop does not ask whether the client is there.
NotAsked == FALSE

\* drain.done(): asked at the top of each turn.
Gone == drain = "over"

\* The status socket sends the status every time, info when it is due.
Sends == phase = "top" /\ ~Gone /\ (kind = "status" \/ due)

LoopEnds == phase = "top" /\ Gone /\ Close

\* A send to a client that has left may raise, or do nothing.
SendFails ==
    /\ ~connected
    /\ Sends \/ (phase = "get" /\ waiting # <<>> /\ kind = "info")
    /\ Close

Shown(what) == shownTo' = IF connected THEN what ELSE shownTo

SendStatus ==
    /\ Sends
    /\ Shown([shownTo EXCEPT !.version = version])
    /\ phase' = "get" /\ due' = FALSE
    /\ UNCHANGED <<givenVars, code, connected, drain, subscribed, busVars>>

NotDue ==
    /\ phase = "top" /\ ~Gone /\ ~Sends
    /\ phase' = "get"
    /\ UNCHANGED <<givenVars, code, connected, drain, subscribed, busVars, due, shownTo>>

\* Mutant: info, too, throws away what else is in the queue.
NoRest(events) == <<>>

\* The status socket needs one reason to send the status, however many there are.
Rest(events) == IF kind = "status" THEN <<>> ELSE Tail(events)

\* queue.get returns: the status socket goes round; info sends what the event tells it to.
GetEvent ==
    /\ phase = "get" /\ waiting # <<>>
    /\ waiting' = Rest(waiting) /\ phase' = "top"
    /\ IF kind = "status"
       THEN UNCHANGED <<due, shownTo>>
       ELSE IF Head(waiting).kind = "progress"
       THEN /\ Shown([shownTo EXCEPT !.progress = Append(@, Head(waiting).n)])
            /\ due' \in {due, TRUE}
       ELSE Shown([shownTo EXCEPT !.version = version]) /\ due' = FALSE
    /\ UNCHANGED <<givenVars, code, connected, drain, subscribed, scheduled, dropped,
                   version, published, told>>

\* wait_for has waited for what was left of the second.
Overdue == TRUE

TimeOut ==
    /\ phase = "get" /\ waiting = <<>>
    /\ phase' = "top" /\ due' = Overdue
    /\ UNCHANGED <<givenVars, code, connected, drain, subscribed, busVars, shownTo>>

Coroutine ==
    \/ OnHandshake \/ FirstMessage \/ Subscribe \/ LoopEnds \/ SendFails \/ SendStatus \/ NotDue
    \/ GetEvent \/ TimeOut

SocketsNext ==
    \/ Coroutine \/ Deliver \/ Leave \/ DrainEnds \/ BinaryFirst \/ BinaryLater
    \/ \E what \in {"status", "progress"} : Publish(what)

\* The loop runs what is ready; the engine need publish nothing, and the client need not leave.
SocketsFairness ==
    /\ WF_socketVars(Coroutine) /\ WF_socketVars(Deliver) /\ WF_socketVars(DrainEnds)

SocketsSpec == SocketsInit /\ [][SocketsNext]_socketVars /\ SocketsFairness

-----------------------------------------------------------------------------
(* Properties. *)

\* What a client presents, in each form that the code knows.
Offer(token, value) == [token |-> token, value |-> value]
Offers(p, m) ==
    {Offer(p.header.scheme = "bearer", p.header.value) :
        h \in {x \in {p.header} : x # None /\ x.scheme # "basic"}}
    \cup {Offer(FALSE, v) : v \in {p.apiKey, m.apiKey} \ {None}}
    \cup {Offer(TRUE, v) : v \in {p.accessToken, m.accessToken} \ {None}}

\* Texts that can be compared, and the key or whatever will do.
InAscii(offer) == offer.value # "exotic" /\ setting.key # "exotic"
IsRight(offer) == setting.anonymous \/ (InAscii(offer) /\ offer.value = setting.key)

\* ws.py:7-9 and auth.py:5-7.  A client that presents one thing, in any of the forms, is
\* served by the websocket, and by the API if the form is one of a request, if it is the key
\* (one in ASCII) or nobody is asked for one, and by neither if it is not.  Where both are
\* in ASCII, a socket that is refused is closed with 4001 for a token and 4401 for a key.
\* One that leaves before it is served gets no subscription.
BothAnswerAlike ==
    /\ subscribed => phase \in {"top", "get"}
    /\ \A offer \in Offers(presents, message) :
         Offers(presents, message) = {offer} /\ offer.value # None =>
            /\ message = Silent => (StatusCode(presents) = 200) = IsRight(offer)
            /\ phase \in {"admitted", "top", "get"} => IsRight(offer)
            /\ code # None => ~IsRight(offer)
            /\ code # None /\ InAscii(offer) => code = (IF offer.token THEN 4001 ELSE 4401)

\* ws.py:9: "Bad credentials close with 4401 (api key) or 4001 (token)."
ClosedWithItsCode == code # None => code \in {4001, 4401}

\* What an info socket has sent about progress, and what is still on its way to it.
Reaching ==
    [i \in DOMAIN shownTo.progress |-> Event("progress", shownTo.progress[i])]
        \o waiting \o scheduled

\* Every event about progress that the callback of an info socket was called with reaches
\* the client, once and in the order of the events, unless the queue was full: those sent,
\* waiting and scheduled are they.
ProgressArrivesInOrder ==
    kind = "info" /\ subscribed /\ connected /\ ~dropped =>
        /\ {Reaching[i].n : i \in {k \in DOMAIN Reaching : Reaching[k].kind = "progress"}} =
               {told[i] : i \in DOMAIN told}
        /\ \A i, j \in DOMAIN Reaching : i < j => Reaching[i].n < Reaching[j].n

\* A client that leaves is forgotten, wherever the socket was and however little happens:
\* the callback is taken off the bus and the task that reads the socket ends.
LeavesNoTrace ==
    ~connected ~> phase = "closed" /\ ~subscribed /\ drain # "reads"
================================================================================
