--------------------------- MODULE HttpReaderProofs ---------------------------
(***************************************************************************)
(* The request reader, for any number of sockets, any limit and every way  *)
(* to cut a message into pieces.                                           *)
(***************************************************************************)
EXTENDS HttpReader, TLAPS

\* No byte of an open connection is lost or counted twice between two calls of
\* onSocketReadyRead().
StreamIsWhole ==
    \A s \in Socket : link[s] = "open" => buffer[s] + unread[s] = sent[s]

\* The inductive invariant: the properties, the account of the bytes, and that
\* nothing was sent before the connection.
HttpInv ==
    /\ HttpTypeOK
    /\ StreamIsWhole
    /\ PiecesDoNotMatter
    /\ \A s \in Socket : link[s] = "none" => sent[s] = 0 /\ buffer[s] = 0

\* A message is three sizes.
LEMMA SizesAreNumbers ==
    ASSUME NEW m \in Message
    PROVE  m.head \in Nat \ {0} /\ m.length \in Int /\ m.body \in Nat
BY HttpAssumption

\* Without a byte nothing can be served.
LEMMA NothingIsServable == \A m \in Message : ~Servable(m, 0)
BY SizesAreNumbers, HttpAssumption DEF Servable

\* Nothing has arrived before the first connection.
LEMMA HttpInit == Init => HttpInv
BY HttpAssumption DEF Init, HttpInv, HttpTypeOK, StreamIsWhole, PiecesDoNotMatter

\* A connection starts empty.
LEMMA ConnectKeeps == ASSUME HttpInv, NEW s \in Socket, Connect(s) PROVE HttpInv'
<1>1. \A t \in Socket : ~Servable(message[t], 0)
  BY NothingIsServable DEF HttpInv, HttpTypeOK
<1> QED
  BY <1>1, HttpAssumption
     DEF Connect, HttpInv, HttpTypeOK, StreamIsWhole, PiecesDoNotMatter

\* What is sent waits to be read.
LEMMA SendKeeps == ASSUME HttpInv, NEW s \in Socket, Send(s) PROVE HttpInv'
<1>1. message[s].head \in Nat /\ message[s].body \in Nat
  BY SizesAreNumbers DEF HttpInv, HttpTypeOK
<1>2. PICK n \in 1..(message[s].head + message[s].body - sent[s]) :
         sent' = [sent EXCEPT ![s] = @ + n] /\ unread' = [unread EXCEPT ![s] = @ + n]
  BY DEF Send
<1>3. sent[s] \in Nat /\ unread[s] \in Nat
  BY DEF HttpInv, HttpTypeOK
<1>4. n \in Nat \ {0}
  BY <1>1, <1>2, <1>3
<1> QED
  BY <1>2, <1>4 DEF Send, HttpInv, HttpTypeOK, StreamIsWhole, PiecesDoNotMatter

\* A client that leaves takes its bytes along.
LEMMA LeaveKeeps == ASSUME HttpInv, NEW s \in Socket, Leave(s) PROVE HttpInv'
BY HttpAssumption DEF Leave, HttpInv, HttpTypeOK, StreamIsWhole, PiecesDoNotMatter

\* One call of onSocketReadyRead() decides by the bytes alone.
LEMMA ReadyReadKeeps == ASSUME HttpInv, NEW s \in Socket, ReadyRead(s) PROVE HttpInv'
<1> USE DEF HttpInv, HttpTypeOK, StreamIsWhole, PiecesDoNotMatter
<1>1. /\ link[s] = "open" /\ unread[s] > 0 /\ unread' = [unread EXCEPT ![s] = 0]
      /\ UNCHANGED <<message, sent>> /\ bytes(s) = sent[s]
  BY DEF ReadyRead, RefuseLarge, HandleRequest, KeepForLater, readAll, close, bytes
<1>2. isWhole(s) <=> Servable(message[s], sent[s])
  <2>1. /\ message[s].head \in Nat \ {0} /\ message[s].length \in Int
        /\ sent[s] \in Nat /\ kMaxRequestBytes \in Nat
    BY SizesAreNumbers, HttpAssumption
  <2> QED
    BY <1>1, <2>1 DEF isWhole, Servable
<1>3. CASE RefuseLarge(s)
  BY <1>1, <1>3, HttpAssumption DEF RefuseLarge, tooLarge, close
<1>4. CASE HandleRequest(s)
  BY <1>1, <1>2, <1>4, HttpAssumption DEF HandleRequest, tooLarge, close
<1>5. CASE KeepForLater(s)
  BY <1>1, <1>2, <1>5, HttpAssumption DEF KeepForLater, tooLarge
<1> QED
  BY <1>3, <1>4, <1>5 DEF ReadyRead

\* The invariant holds whatever the clients do.
THEOREM ReaderIsSound == Spec => []HttpInv
<1>1. Init => HttpInv
  BY HttpInit
<1>2. HttpInv /\ [Next]_httpVars => HttpInv'
  <2> SUFFICES ASSUME HttpInv, [Next]_httpVars PROVE HttpInv'
    OBVIOUS
  <2>1. CASE Next
    BY <2>1, ConnectKeeps, SendKeeps, LeaveKeeps, ReadyReadKeeps DEF Next
  <2>2. CASE UNCHANGED httpVars
    BY <2>2 DEF httpVars, HttpInv, HttpTypeOK, StreamIsWhole, PiecesDoNotMatter
  <2> QED
    BY <2>1, <2>2
<1> QED
  BY <1>1, <1>2, PTL DEF Spec

\* Sizes stay in their bounds, and a closed connection holds nothing unread.
THEOREM ReaderTypes == Spec => []HttpTypeOK
BY ReaderIsSound, PTL DEF HttpInv

\* No byte of a connection is lost or counted twice.
THEOREM StreamStaysWhole == Spec => []StreamIsWhole
BY ReaderIsSound, PTL DEF HttpInv

\* What becomes of a request does not depend on how it was cut.
THEOREM CutsDoNotMatter == Spec => []PiecesDoNotMatter
BY ReaderIsSound, PTL DEF HttpInv
=============================================================================
