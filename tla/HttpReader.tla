------------------------------ MODULE HttpReader ------------------------------
(***************************************************************************)
(* How LocalApiServer (src/LocalApiServer.cpp) puts a request together from *)
(* the pieces in which its bytes arrive, for several sockets of one event  *)
(* loop. What an accepted request does is in module UpdateAgent.           *)
(*                                                                         *)
(* A message is its sizes: the bytes up to and including the blank line,   *)
(* what contentLength() makes of its headers (0 without the header, or     *)
(* when the value is not an int), and the bytes the client has after it.   *)
(***************************************************************************)
EXTENDS Integers

CONSTANTS
    Socket,           \* connections of clients
    Message,          \* what clients send
    kMaxRequestBytes

ASSUME HttpAssumption ==
    /\ kMaxRequestBytes \in Nat
    /\ Message \subseteq [head: Nat \ {0}, length: Int, body: Nat]

VARIABLES
    link,     \* per socket: what became of the connection
    message,  \* per socket: what its client means to send
    sent,     \* per socket: how many bytes it has sent (history)
    unread,   \* per socket: bytes that arrived and were not read yet
    buffer    \* per socket: size of the property "morfupdate-buffer"

httpVars == <<link, message, sent, unread, buffer>>

Init ==
    /\ link = [s \in Socket |-> "none"]
    /\ message \in [Socket -> Message]
    /\ sent = [s \in Socket |-> 0]
    /\ unread = [s \in Socket |-> 0]
    /\ buffer = [s \in Socket |-> 0]

-----------------------------------------------------------------------------
(* The client. Its bytes arrive in any pieces, and it may leave.           *)

\* newConnection: the server takes every pending connection.
Connect(s) ==
    /\ link[s] = "none"
    /\ link' = [link EXCEPT ![s] = "open"]
    /\ UNCHANGED <<message, sent, unread, buffer>>

Send(s) ==
    /\ link[s] = "open"
    /\ \E n \in 1..(message[s].head + message[s].body - sent[s]) :
          /\ sent' = [sent EXCEPT ![s] = @ + n]
          /\ unread' = [unread EXCEPT ![s] = @ + n]
    /\ UNCHANGED <<link, message, buffer>>

\* Mutant: deleteLater() is not connected.
LeaveUndeleted(s) ==
    /\ link[s] = "open"
    /\ link' = [link EXCEPT ![s] = "gone"]
    /\ UNCHANGED <<message, sent, unread, buffer>>

\* disconnected: the socket and what it holds are deleted.
Leave(s) ==
    /\ link[s] = "open"
    /\ link' = [link EXCEPT ![s] = "gone"]
    /\ unread' = [unread EXCEPT ![s] = 0]
    /\ buffer' = [buffer EXCEPT ![s] = 0]
    /\ UNCHANGED <<message, sent>>

-----------------------------------------------------------------------------
(* onSocketReadyRead(): everything that arrived is read in one call.       *)

bytes(s) == buffer[s] + unread[s]

tooLarge(s) == bytes(s) > kMaxRequestBytes

\* Mutant: the blank line and the headers are not counted.
isWholeByBody(s) ==
    LET m == message[s]
    IN  /\ bytes(s) >= m.head
        /\ m.length >= 0 /\ m.length <= kMaxRequestBytes
        /\ bytes(s) >= m.length

\* The blank line has been seen, the length is usable, the body is there.
isWhole(s) ==
    LET m == message[s]
    IN  /\ bytes(s) >= m.head
        /\ m.length >= 0 /\ m.length <= kMaxRequestBytes
        /\ bytes(s) >= m.head + m.length

readAll(s) == link[s] = "open" /\ unread[s] > 0 /\ unread' = [unread EXCEPT ![s] = 0]

\* After disconnectFromHost() a socket reads nothing more. The property is not
\* written back on these two paths.
close(s, as) ==
    /\ link' = [link EXCEPT ![s] = as]
    /\ UNCHANGED <<message, sent, buffer>>

RefuseLarge(s) == readAll(s) /\ tooLarge(s) /\ close(s, "dropped")

\* handle() and reply(): one answer, then disconnectFromHost().
HandleRequest(s) == readAll(s) /\ ~tooLarge(s) /\ isWhole(s) /\ close(s, "answered")

\* Mutant: only the new piece is kept.
KeepLastPiece(s) ==
    /\ readAll(s) /\ ~tooLarge(s) /\ ~isWhole(s)
    /\ buffer' = [buffer EXCEPT ![s] = unread[s]]
    /\ UNCHANGED <<link, message, sent>>

\* Not a whole request: no answer and no time limit, also when the length can
\* never be satisfied.
KeepForLater(s) ==
    /\ readAll(s) /\ ~tooLarge(s) /\ ~isWhole(s)
    /\ buffer' = [buffer EXCEPT ![s] = bytes(s)]
    /\ UNCHANGED <<link, message, sent>>

ReadyRead(s) == RefuseLarge(s) \/ HandleRequest(s) \/ KeepForLater(s)

-----------------------------------------------------------------------------
Next == \E s \in Socket : Connect(s) \/ Send(s) \/ Leave(s) \/ ReadyRead(s)

Spec == Init /\ [][Next]_httpVars

\* The event loop runs: a readable socket is read. Clients owe nothing.
FairSpec == Spec /\ \A s \in Socket : WF_httpVars(ReadyRead(s))

-----------------------------------------------------------------------------
\* Sizes. What a silent connection may hold for ever is bounded, and a closed
\* one holds no unread byte.
HttpTypeOK ==
    /\ link \in [Socket -> {"none", "open", "answered", "dropped", "gone"}]
    /\ message \in [Socket -> Message]
    /\ sent \in [Socket -> Nat] /\ unread \in [Socket -> Nat]
    /\ buffer \in [Socket -> 0..kMaxRequestBytes]
    /\ \A s \in Socket : link[s] # "open" => unread[s] = 0

\* A request, by its bytes alone.
Servable(m, n) ==
    /\ m.length \in 0..kMaxRequestBytes
    /\ n >= m.head + m.length

\* What becomes of a request is decided by its bytes and not by how they were
\* cut: an answered request had arrived whole, a dropped one was too large, and
\* the server does not sit on one that it has read and could answer or must drop.
\* (Only bytes beyond a whole request may fall either way.)
PiecesDoNotMatter ==
    \A s \in Socket :
        /\ link[s] = "answered" => Servable(message[s], sent[s]) /\ sent[s] <= kMaxRequestBytes
        /\ link[s] = "dropped" => sent[s] > kMaxRequestBytes
        /\ link[s] = "open" /\ unread[s] = 0 =>
               ~Servable(message[s], sent[s]) /\ sent[s] <= kMaxRequestBytes

\* A request that has arrived whole is answered, unless its client leaves first
\* or has sent more than a request may have; whatever the other sockets do and
\* however long some of them are silent.
RequestIsAnswered ==
    \A s \in Socket :
        link[s] = "open" /\ Servable(message[s], sent[s]) ~> link[s] \in {"answered", "dropped", "gone"}
=============================================================================
