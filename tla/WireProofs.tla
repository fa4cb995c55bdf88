----------------------------- MODULE WireProofs -----------------------------
(***************************************************************************)
(* Theorems about what goes over a connection: about Wire, for any number  *)
(* of clients; about Receiver, for any bytes a client sends, cut in any    *)
(* way; about Base64, for any text and any data; and about Scalars, for    *)
(* any number and any string.                                              *)
(***************************************************************************)
EXTENDS Wire, Receiver, Base64, Scalars, FiniteSetTheorems, SequenceTheorems,
        WellFoundedInduction, TLAPS

(***************************************************************************)
(* Wire: who writes what to which socket                                   *)
(***************************************************************************)

\* Two connections never have the same socket.
SocketsDistinct ==
    /\ \A c \in Connected : fd[c] \in Fd
    /\ \A c, d \in Connected : fd[c] = fd[d] => c = d

\* The owner of an entry has not begun to leave: only then does the removal of
\* its own entry leave the others' alone.
OpenAndAsked ==
    \A f \in binary :
        \E c \in Clients : thread[c] = "open" /\ fd[c] = f /\ asked[c]

IInv == TypeOK /\ SocketsDistinct /\ OpenAndAsked

LEMMA FdFinite ==
  /\ IsFiniteSet(Fd)
  /\ Cardinality(Fd) = Cardinality(Clients)
  /\ Cardinality(Clients) \in Nat
  /\ Fd \subseteq Nat /\ 0 \notin Fd
<1>1. Cardinality(Clients) \in Nat
  BY ClientsAssumption, FS_CardinalityType
<1>2. IsFiniteSet(Fd) /\ Cardinality(Fd) = Cardinality(Clients)
  <2>1. 1 \in Int /\ Cardinality(Clients) \in Int
    BY <1>1
  <2>2. /\ IsFiniteSet(1..Cardinality(Clients))
        /\ Cardinality(1..Cardinality(Clients)) =
             IF 1 > Cardinality(Clients) THEN 0 ELSE Cardinality(Clients) - 1 + 1
    BY <2>1, FS_Interval
  <2> QED BY <1>1, <2>2 DEF Fd
<1> QED BY <1>1, <1>2 DEF Fd

\* The table stays within its bound, and every entry is a socket.
LEMMA SetBinaryFacts ==
  ASSUME TypeOK, NEW f \in Fd, SetBinary(f)
  PROVE  /\ binary' \subseteq Fd
         /\ Cardinality(binary') <= BinaryMax
         /\ binary \subseteq binary' /\ binary' \subseteq binary \cup {f}
<1>1. IsFiniteSet(binary) /\ Cardinality(binary) \in Nat
  BY FdFinite, FS_Subset, FS_CardinalityType DEF TypeOK
<1>2. Cardinality(binary \cup {f}) \in
        {Cardinality(binary), Cardinality(binary) + 1}
  BY <1>1, FS_AddElement
<1> QED BY <1>1, <1>2, BinaryMaxAssumption DEF SetBinary, TypeOK

LEMMA ForgetFacts ==
  ASSUME TypeOK, NEW f, binary' = binary \ {f}
  PROVE  binary' \subseteq Fd /\ Cardinality(binary') <= BinaryMax
<1>1. IsFiniteSet(binary) /\ Cardinality(binary) \in Nat
  BY FdFinite, FS_Subset, FS_CardinalityType DEF TypeOK
<1>2. Cardinality(binary \ {f}) \in
        {Cardinality(binary), Cardinality(binary) - 1}
  BY <1>1, FS_RemoveElement
<1> QED BY <1>1, <1>2, BinaryMaxAssumption DEF TypeOK

\* At the start nobody is connected and the table is empty.
THEOREM InitIInv == Init => IInv
<1> SUFFICES ASSUME Init PROVE IInv
  OBVIOUS
<1>1. Connected = {}
  BY DEF Init, Connected
<1>2. Cardinality(binary) = 0
  BY FS_EmptySet DEF Init
<1>3. TypeOK
  BY <1>2, BinaryMaxAssumption, MaxSentAssumption
     DEF Init, TypeOK, Writers, Form
<1> QED BY <1>1, <1>3 DEF Init, IInv, SocketsDistinct, OpenAndAsked

\* Sending changes neither the connections nor the table.
LEMMA SendKeeps ==
  ASSUME IInv, NEW w \in Writers, NEW f \in Fd \cup {0}, BeginSend(w, f)
  PROVE  IInv'
<1> USE DEF IInv
<1>1. TypeOK'
  <2>1. left' \in [Writers -> 0..MaxSent]
    BY MaxSentAssumption DEF TypeOK, BeginSend
  <2>2. step' \in [Writers -> 0..2]
    BY DEF TypeOK, BeginSend
  <2>3. form' \in [Writers -> Form] /\ to' \in [Writers -> Fd \cup {0}]
    BY DEF TypeOK, BeginSend, Form
  <2> QED BY <2>1, <2>2, <2>3 DEF TypeOK, BeginSend
<1>2. SocketsDistinct' /\ OpenAndAsked'
  BY DEF BeginSend, SocketsDistinct, OpenAndAsked, Connected
<1> QED BY <1>1, <1>2

LEMMA AcceptKeeps ==
  ASSUME IInv, NEW c \in Clients, Accept(c)
  PROVE  IInv'
<1> USE DEF IInv
<1>1. PICK f \in Fd \ {fd[d] : d \in Connected} : fd' = [fd EXCEPT ![c] = f]
  BY DEF Accept
<1>2. TypeOK'
  BY <1>1 DEF TypeOK, Accept
<1>3. /\ c \notin Connected
      /\ Connected' = Connected \cup {c}
      /\ fd'[c] = f
      /\ \A d \in Connected : fd'[d] = fd[d]
  BY <1>1 DEF Accept, Connected, TypeOK
<1>4. SocketsDistinct'
  BY <1>1, <1>3 DEF SocketsDistinct
<1>5. OpenAndAsked'
  BY <1>1 DEF OpenAndAsked, Accept, TypeOK
<1> QED BY <1>2, <1>4, <1>5

LEMMA SwitchKeeps ==
  ASSUME IInv, NEW c \in Clients, Switch(c)
  PROVE  IInv'
<1> USE DEF IInv
<1>1. fd[c] \in Fd
  BY DEF Switch, Idle, SocketsDistinct, Connected
<1>2. /\ binary' \subseteq Fd
      /\ Cardinality(binary') <= BinaryMax
      /\ binary' \subseteq binary \cup {fd[c]}
  BY <1>1, SetBinaryFacts DEF Switch
<1>3. TypeOK'
  BY <1>1, <1>2 DEF TypeOK, Switch, Idle, Writers, Form
<1>4. SocketsDistinct'
  BY DEF SocketsDistinct, Switch, Connected
<1>5. OpenAndAsked'
  BY <1>2 DEF OpenAndAsked, Switch, Idle, TypeOK
<1> QED BY <1>3, <1>4, <1>5

\* The entry that is removed is c's own: no other open connection has its
\* socket.
LEMMA ForgetKeeps ==
  ASSUME IInv, NEW c \in Clients, Forget(c)
  PROVE  IInv'
<1> USE DEF IInv
<1>1. TypeOK'
  BY ForgetFacts DEF TypeOK, Forget
<1>2. Connected' = Connected
  BY DEF Connected, Forget, Idle, TypeOK
<1>3. SocketsDistinct'
  BY <1>2 DEF SocketsDistinct, Forget
<1>4. OpenAndAsked'
  BY DEF OpenAndAsked, SocketsDistinct, Connected, Forget, Idle, TypeOK
<1> QED BY <1>1, <1>3, <1>4

LEMMA CloseKeeps ==
  ASSUME IInv, NEW c \in Clients, Close(c)
  PROVE  IInv'
<1> USE DEF IInv
<1>1. TypeOK'
  BY DEF TypeOK, Close
<1>2. Connected' \subseteq Connected
  BY DEF Connected, Close, TypeOK
<1>3. SocketsDistinct'
  BY <1>2 DEF SocketsDistinct, Close
<1>4. OpenAndAsked'
  BY DEF OpenAndAsked, Close, TypeOK
<1> QED BY <1>1, <1>3, <1>4

LEMMA WriteKeeps ==
  ASSUME IInv, NEW w \in Writers, Write(w)
  PROVE  IInv'
<1> USE DEF IInv
<1> DEFINE piece == [from |-> w, form |-> form[w], part |-> step[w]]
           Piece == [from : Writers, form : Form, part : 1..2]
<1>1. piece \in Piece /\ step[w] \in 1..2
  BY DEF TypeOK, Write
<1>2. \A c \in Clients : stream'[c] \in {stream[c], Append(stream[c], piece)}
  BY DEF Write
<1>3. \A c \in Clients : stream'[c] \in Seq(Piece)
  <2> SUFFICES ASSUME NEW c \in Clients PROVE stream'[c] \in Seq(Piece)
    OBVIOUS
  <2>1. stream[c] \in Seq(Piece)
    BY DEF TypeOK
  <2> HIDE DEF piece, Piece
  <2>2. Append(stream[c], piece) \in Seq(Piece)
    BY <1>1, <2>1, AppendProperties
  <2> QED BY <1>2, <2>1, <2>2
<1>4. step' \in [Writers -> 0..2]
  BY <1>1 DEF TypeOK, Write
<1>5. TypeOK'
  BY <1>3, <1>4 DEF TypeOK, Write
<1>6. SocketsDistinct' /\ OpenAndAsked'
  BY DEF Write, SocketsDistinct, OpenAndAsked, Connected
<1> QED BY <1>5, <1>6

LEMMA NextKeeps == IInv /\ [Next]_vars => IInv'
<1> SUFFICES ASSUME IInv, [Next]_vars PROVE IInv'
  OBVIOUS
<1>1. ASSUME NEW c \in Clients, Accept(c) PROVE IInv'
  BY <1>1, AcceptKeeps
<1>2. ASSUME NEW c \in Clients, Answer(c) PROVE IInv'
  BY <1>2, SendKeeps DEF Answer, Writers, IInv, TypeOK
<1>3. ASSUME NEW c \in Clients, Switch(c) PROVE IInv'
  BY <1>3, SwitchKeeps
<1>4. ASSUME NEW c \in Clients, Forget(c) PROVE IInv'
  BY <1>4, ForgetKeeps
<1>5. ASSUME NEW c \in Clients, Close(c) PROVE IInv'
  BY <1>5, CloseKeeps
<1>6. CASE MainSend
  BY <1>6, SendKeeps DEF MainSend, Writers, IInv, TypeOK
<1>7. ASSUME NEW w \in Writers, Write(w) PROVE IInv'
  BY <1>7, WriteKeeps
<1>8. CASE UNCHANGED vars
  BY <1>8 DEF vars, IInv, TypeOK, SocketsDistinct, OpenAndAsked, Connected
<1> QED BY <1>1, <1>2, <1>3, <1>4, <1>5, <1>6, <1>7, <1>8 DEF Next

\* The types hold, the bound of the table among them: protocol_set_binary and
\* protocol_clear_binary keep the number of entries within BINARY_FD_MAX.
THEOREM TypeCorrect == Spec => []TypeOK
<1>1. IInv => TypeOK
  BY DEF IInv
<1> QED BY <1>1, InitIInv, NextKeeps, PTL DEF Spec

\* The table speaks only of connections that are open and have asked for
\* binary mode, however often socket numbers are reused: the server clears an
\* entry before it closes the socket.
THEOREM TableHolds == Spec => []BinaryMeansAsked
<1>1. IInv => BinaryMeansAsked
  BY DEF IInv, OpenAndAsked, BinaryMeansAsked, Connected
<1> QED BY <1>1, InitIInv, NextKeeps, PTL DEF Spec

(***************************************************************************)
(* The framing of a connection's own replies, when the table has room for  *)
(* every connection.                                                       *)
(***************************************************************************)

RoomForAll == BinaryMax >= Cardinality(Clients)

\* The answer to BINARY has reached c.
Acked(c) == \E j \in 1..Len(stream[c]) :
                stream[c][j].form = "ack" /\ stream[c][j].part = 2

\* c's thread is between the switch and the end of its answer.
Acking(c) == step[c] > 0 /\ form[c] = "ack"

\* A thread in the middle of a message has its socket; the answer to BINARY
\* has arrived when it is asked for and no longer being written; a message is
\* written in the form that the request decided.
Framing(c) ==
    /\ step[c] > 0 => thread[c] = "open" /\ to[c] = fd[c]
    /\ asked[c] => thread[c] # "none"
    /\ thread[c] = "open" /\ asked[c] => fd[c] \in binary
    /\ Acking(c) => asked[c]
    /\ Acked(c) <=> asked[c] /\ ~Acking(c)
    /\ step[c] > 0 /\ ~Acking(c) => (form[c] = "binary" <=> asked[c])

FInv ==
    /\ form["main"] # "ack"
    /\ \A c \in Clients : Framing(c)
    /\ OwnRepliesFramed

\* A socket that asks for an entry gets it.
LEMMA RoomFacts ==
  ASSUME RoomForAll, TypeOK, NEW f \in Fd, SetBinary(f)
  PROVE  binary' = binary \cup {f}
<1>1. CASE f \in binary
  BY <1>1 DEF SetBinary
<1>2. CASE f \notin binary
  <2>1. Cardinality(Fd \ {f}) = Cardinality(Fd) - 1 /\ IsFiniteSet(Fd \ {f})
    BY FdFinite, FS_RemoveElement
  <2>2. Cardinality(binary) <= Cardinality(Fd \ {f})
    BY <1>2, <2>1, FS_Subset DEF TypeOK
  <2>3. Cardinality(binary) \in Nat
    BY FdFinite, FS_Subset, FS_CardinalityType DEF TypeOK
  <2>4. Cardinality(binary) < BinaryMax
    BY <2>1, <2>2, <2>3, FdFinite, BinaryMaxAssumption DEF RoomForAll
  <2> QED BY <2>4 DEF SetBinary
<1> QED BY <1>1, <1>2

\* At the start no message is under way.
THEOREM InitFInv == Init => FInv
<1> SUFFICES ASSUME Init PROVE FInv
  OBVIOUS
<1>1. \A c \in Clients : stream[c] = <<>> /\ step[c] = 0 /\ asked[c] = FALSE
  BY DEF Init, Writers
<1>2. form["main"] # "ack"
  BY DEF Init, Writers
<1> QED BY <1>1, <1>2 DEF FInv, Framing, Acked, Acking, OwnRepliesFramed

\* What is received stays as it was unless something is written.
LEMMA SameStream ==
  ASSUME stream' = stream
  PROVE  /\ \A c \in Clients : Acked(c)' <=> Acked(c)
         /\ OwnRepliesFramed' <=> OwnRepliesFramed
BY DEF Acked, OwnRepliesFramed, AckedBefore

LEMMA AcceptFrames ==
  ASSUME IInv, FInv, NEW c \in Clients, Accept(c)
  PROVE  FInv'
<1>1. \A d \in Clients : d # c => fd'[d] = fd[d] /\ thread'[d] = thread[d]
  BY DEF Accept, IInv, TypeOK
<1>2. step[c] = 0 /\ asked[c] = FALSE
  BY DEF Accept, IInv, TypeOK, FInv, Framing, Writers
<1>3. \A d \in Clients : Framing(d)'
  BY <1>1, <1>2, SameStream DEF FInv, Framing, Acking, Accept
<1> QED BY <1>3, SameStream DEF FInv, Accept

\* The table is looked up as the socket is: the entry is there exactly when
\* this connection asked.
LEMMA AnswerFrames ==
  ASSUME IInv, FInv, NEW c \in Clients, Answer(c)
  PROVE  FInv'
<1>1. fd[c] \in binary <=> asked[c]
  BY DEF Answer, Idle, IInv, TypeOK, OpenAndAsked, SocketsDistinct, Connected,
         FInv, Framing
<1>2. \A w \in Writers : w # c => /\ step'[w] = step[w]
                                  /\ form'[w] = form[w]
                                  /\ to'[w] = to[w]
  BY DEF Answer, BeginSend, IInv, TypeOK, Writers
<1>3. /\ step'[c] = 1 /\ to'[c] = fd[c]
      /\ form'[c] = IF asked[c] THEN "binary" ELSE "json"
  BY <1>1 DEF Answer, BeginSend, IInv, TypeOK, Writers
<1>4. /\ UNCHANGED <<thread, fd, asked, binary, stream>>
      /\ step[c] = 0 /\ thread[c] = "open"
  BY DEF Answer, BeginSend, Idle
<1>5. \A d \in Clients : Framing(d)'
  BY <1>2, <1>3, <1>4, SameStream DEF FInv, Framing, Acking, Writers
<1>6. form'["main"] # "ack"
  BY <1>2, ClientsAssumption DEF FInv, Writers
<1> QED BY <1>4, <1>5, <1>6, SameStream DEF FInv

LEMMA MainFrames ==
  ASSUME IInv, FInv, MainSend
  PROVE  FInv'
<1>1. \A c \in Clients : /\ step'[c] = step[c]
                         /\ form'[c] = form[c]
                         /\ to'[c] = to[c]
  BY ClientsAssumption DEF MainSend, BeginSend, IInv, TypeOK, Writers
<1>2. form'["main"] # "ack"
  BY DEF MainSend, BeginSend, IInv, TypeOK, Writers
<1>3. UNCHANGED <<thread, fd, asked, binary, stream>>
  BY DEF MainSend, BeginSend
<1>4. \A d \in Clients : Framing(d)'
  BY <1>1, <1>3, SameStream DEF FInv, Framing, Acking
<1> QED BY <1>2, <1>3, <1>4, SameStream DEF FInv

LEMMA SwitchFrames ==
  ASSUME RoomForAll, IInv, FInv, NEW c \in Clients, Switch(c)
  PROVE  FInv'
<1>1. fd[c] \in Fd
  BY DEF Switch, Idle, IInv, SocketsDistinct, Connected
<1>2. binary' = binary \cup {fd[c]}
  BY <1>1, RoomFacts DEF Switch, IInv
<1>3. \A w \in Writers : w # c => /\ step'[w] = step[w]
                                  /\ form'[w] = form[w]
                                  /\ to'[w] = to[w]
  BY DEF Switch, IInv, TypeOK, Writers
<1>4. step'[c] = 1 /\ to'[c] = fd[c] /\ form'[c] = "ack" /\ asked'[c] = TRUE
  BY DEF Switch, IInv, TypeOK, Writers
<1>5. /\ \A d \in Clients : d # c => asked'[d] = asked[d]
      /\ UNCHANGED <<thread, fd, stream>>
      /\ step[c] = 0 /\ thread[c] = "open" /\ ~asked[c]
  BY DEF Switch, Idle, IInv, TypeOK
<1>6. \A d \in Clients : Framing(d)'
  BY <1>2, <1>3, <1>4, <1>5, SameStream DEF FInv, Framing, Acking, Writers
<1>7. form'["main"] # "ack"
  BY <1>3, ClientsAssumption DEF FInv, Writers
<1> QED BY <1>5, <1>6, <1>7, SameStream DEF FInv

LEMMA ForgetFrames ==
  ASSUME IInv, FInv, NEW c \in Clients, Forget(c)
  PROVE  FInv'
<1>1. \A d \in Clients : d # c => thread'[d] = thread[d]
  BY DEF Forget, IInv, TypeOK
<1>2. /\ thread'[c] = "cleared" /\ thread[c] = "open" /\ step[c] = 0
      /\ UNCHANGED <<fd, asked, step, form, to, stream>>
      /\ binary' = binary \ {fd[c]}
  BY DEF Forget, Idle, IInv, TypeOK
<1>3. \A d \in Clients : d # c /\ thread[d] = "open" => fd[d] # fd[c]
  BY <1>2 DEF IInv, SocketsDistinct, Connected
<1>4. \A d \in Clients : Framing(d)'
  BY <1>1, <1>2, <1>3, SameStream DEF FInv, Framing, Acking
<1> QED BY <1>2, <1>4, SameStream DEF FInv

LEMMA CloseFrames ==
  ASSUME IInv, FInv, NEW c \in Clients, Close(c)
  PROVE  FInv'
<1>1. \A d \in Clients : d # c => thread'[d] = thread[d]
  BY DEF Close, IInv, TypeOK
<1>2. /\ thread'[c] = "gone" /\ thread[c] = "cleared"
      /\ UNCHANGED <<fd, asked, binary, step, form, to, stream>>
  BY DEF Close, IInv, TypeOK
<1>3. \A d \in Clients : Framing(d)'
  BY <1>1, <1>2, SameStream DEF FInv, Framing, Acking
<1> QED BY <1>2, <1>3, SameStream DEF FInv

\* A piece at the end leaves what came before in its place.
LEMMA ReceiveFacts ==
  ASSUME NEW P, NEW s \in Seq(P), NEW p \in P
  PROVE  /\ Len(s) \in Nat
         /\ DOMAIN s = 1..Len(s)
         /\ Len(Append(s, p)) = Len(s) + 1
         /\ DOMAIN Append(s, p) = 1..(Len(s) + 1)
         /\ \A j \in 1..Len(s) : Append(s, p)[j] = s[j]
         /\ Append(s, p)[Len(s) + 1] = p
BY AppendProperties, LenProperties

\* A thread writes to its own client only, and the main thread never writes
\* the answer to BINARY: that answer arrives where it was asked for, after
\* its second half, and what a thread sends takes the form its client expects.
LEMMA WriteFrames ==
  ASSUME IInv, FInv, NEW w \in Writers, Write(w)
  PROVE  FInv'
<1> DEFINE piece == [from |-> w, form |-> form[w], part |-> step[w]]
           Piece == [from : Writers, form : Form, part : 1..2]
           Gets(d) == d \in Connected /\ fd[d] = to[w]
<1>1. piece \in Piece /\ step[w] \in 1..2
  BY DEF IInv, TypeOK, Write
<1>2. \A d \in Clients :
        stream'[d] = IF Gets(d) THEN Append(stream[d], piece) ELSE stream[d]
  BY DEF Write
<1>3. \A d \in Clients : stream[d] \in Seq(Piece)
  BY DEF IInv, TypeOK
<1>4. /\ piece.from = w /\ piece.form = form[w] /\ piece.part = step[w]
      /\ UNCHANGED <<thread, fd, asked, binary, form, to, left>>
  BY DEF Write
<1>5. \A d \in Clients : w \in Clients => (Gets(d) <=> d = w)
  BY <1>1 DEF FInv, Framing, IInv, SocketsDistinct, Connected
<1>6. \A u \in Writers : u # w => step'[u] = step[u]
  BY DEF Write, IInv, TypeOK
<1>7. w \in Clients => step'[w] = (step[w] + 1) % 3
  BY <1>5 DEF Write, IInv, TypeOK
<1>8. w \notin Clients => form[w] # "ack"
  BY DEF FInv, Writers
<1> HIDE DEF piece, Piece
<1>9. ASSUME NEW d \in Clients, Gets(d)
       PROVE  /\ Len(stream[d]) \in Nat
              /\ DOMAIN stream[d] = 1..Len(stream[d])
              /\ Len(stream'[d]) = Len(stream[d]) + 1
              /\ DOMAIN stream'[d] = 1..(Len(stream[d]) + 1)
              /\ \A j \in 1..Len(stream[d]) : stream'[d][j] = stream[d][j]
              /\ stream'[d][Len(stream[d]) + 1] = piece
  <2>1. stream[d] \in Seq(Piece) /\ piece \in Piece
    BY <1>1, <1>3
  <2>2. stream'[d] = Append(stream[d], piece)
    BY <1>2, <1>9
  <2> QED BY <2>1, <2>2, ReceiveFacts
<1>10. ASSUME NEW d \in Clients
      PROVE  Acked(d)' <=> Acked(d) \/ (d = w /\ form[w] = "ack" /\ step[w] = 2)
  <2>1. CASE ~Gets(d)
    BY <1>2, <1>5, <2>1 DEF Acked
  <2>2. CASE Gets(d)
    <3> DEFINE n == Len(stream[d])
    <3>1. /\ n \in Nat
          /\ Len(stream'[d]) = n + 1
          /\ \A j \in 1..n : stream'[d][j] = stream[d][j]
          /\ stream'[d][n + 1] = piece
      BY <1>9, <2>2
    <3>2. Acked(d) => Acked(d)'
      <4> SUFFICES ASSUME NEW j \in 1..n,
                          stream[d][j].form = "ack", stream[d][j].part = 2
                   PROVE  Acked(d)'
        BY DEF Acked
      <4>1. j \in 1..(n + 1) /\ stream'[d][j] = stream[d][j]
        BY <3>1
      <4> QED BY <3>1, <4>1 DEF Acked
    <3>3. form[w] = "ack" /\ step[w] = 2 => Acked(d)'
      <4>1. n + 1 \in 1..(n + 1)
        BY <3>1
      <4> QED BY <1>4, <3>1, <4>1 DEF Acked
    <3>4. Acked(d)' => Acked(d) \/ (form[w] = "ack" /\ step[w] = 2)
      <4> SUFFICES ASSUME NEW j \in 1..(n + 1),
                          stream'[d][j].form = "ack", stream'[d][j].part = 2
                   PROVE  Acked(d) \/ (form[w] = "ack" /\ step[w] = 2)
        BY <3>1 DEF Acked
      <4>1. CASE j \in 1..n
        BY <3>1, <4>1 DEF Acked
      <4>2. CASE j = n + 1
        BY <1>4, <3>1, <4>2
      <4> QED BY <3>1, <4>1, <4>2
    <3> QED BY <3>2, <3>3, <3>4, <1>5, <1>8, <2>2
  <2> QED BY <2>1, <2>2
<1>11. OwnRepliesFramed'
  <2> SUFFICES ASSUME NEW d \in Clients, NEW i \in DOMAIN stream'[d],
                      stream'[d][i].from = d, stream'[d][i].form # "ack"
               PROVE  stream'[d][i].form = "binary" <=> AckedBefore(d, i)'
    BY DEF OwnRepliesFramed
  <2>1. CASE ~Gets(d)
    BY <1>2, <2>1 DEF FInv, OwnRepliesFramed, AckedBefore
  <2>2. CASE Gets(d)
    <3> DEFINE n == Len(stream[d])
    <3>1. /\ n \in Nat
          /\ DOMAIN stream[d] = 1..n
          /\ DOMAIN stream'[d] = 1..(n + 1)
          /\ \A j \in 1..n : stream'[d][j] = stream[d][j]
          /\ stream'[d][n + 1] = piece
      BY <1>9, <2>2
    <3>2. AckedBefore(d, i)' <=> \E j \in 1..(i - 1) :
             stream[d][j].form = "ack" /\ stream[d][j].part = 2
      <4>1. i \in 1..(n + 1)
        BY <3>1
      <4>2. \A j \in 1..(i - 1) : j \in 1..n
        BY <3>1, <4>1
      <4>3. \A j \in 1..(i - 1) : stream'[d][j] = stream[d][j]
        BY <3>1, <4>2
      <4> QED BY <4>3 DEF AckedBefore
    <3>3. CASE i \in 1..n
      <4>1. stream'[d][i] = stream[d][i] /\ i \in DOMAIN stream[d]
        BY <3>1, <3>3
      <4>2. stream[d][i].form = "binary" <=> AckedBefore(d, i)
        BY <4>1 DEF FInv, OwnRepliesFramed
      <4>3. AckedBefore(d, i)' <=> AckedBefore(d, i)
        BY <3>2 DEF AckedBefore
      <4> QED BY <4>1, <4>2, <4>3
    <3>4. CASE i = n + 1
      <4>1. d = w /\ form[d] # "ack"
        BY <1>4, <3>1, <3>4
      <4>2. form[d] = "binary" <=> asked[d]
        BY <1>1, <4>1 DEF FInv, Framing, Acking
      <4>3. Acked(d) <=> asked[d]
        BY <4>1 DEF FInv, Framing, Acking
      <4>4. AckedBefore(d, i)' <=> Acked(d)
        BY <3>1, <3>2, <3>4 DEF Acked
      <4> QED BY <4>1, <4>2, <4>3, <4>4, <3>1, <3>4, <1>4
    <3> QED BY <3>1, <3>3, <3>4
  <2> QED BY <2>1, <2>2
<1>12. ASSUME NEW d \in Clients PROVE Framing(d)'
  <2>1. CASE d # w
    BY <1>4, <1>6, <1>10, <2>1 DEF FInv, Framing, Acking, Writers
  <2>2. CASE d = w
    <3>1. CASE step[w] = 1
      <4>1. step'[w] = 2
        BY <1>7, <2>2, <3>1
      <4> QED BY <1>4, <1>10, <2>2, <3>1, <4>1 DEF FInv, Framing, Acking
    <3>2. CASE step[w] = 2
      <4>1. step'[w] = 0
        BY <1>7, <2>2, <3>2
      <4> QED BY <1>4, <1>10, <2>2, <3>2, <4>1 DEF FInv, Framing, Acking
    <3> QED BY <1>1, <3>1, <3>2
  <2> QED BY <2>1, <2>2
<1>13. form'["main"] # "ack"
  BY <1>4 DEF FInv
<1> QED BY <1>11, <1>12, <1>13 DEF FInv

LEMMA NextFrames ==
  ASSUME RoomForAll
  PROVE  IInv /\ FInv /\ [Next]_vars => FInv'
<1> SUFFICES ASSUME IInv, FInv, [Next]_vars PROVE FInv'
  OBVIOUS
<1>1. CASE UNCHANGED vars
  BY <1>1, SameStream DEF vars, FInv, Framing, Acking
<1> QED BY <1>1, AcceptFrames, AnswerFrames, SwitchFrames, ForgetFrames,
           CloseFrames, MainFrames, WriteFrames DEF Next

\* When the table has room for every connection, a connection's own replies
\* are JSON lines before the answer to BINARY and length-prefixed after it:
\* neither the pushes of the main thread nor the reuse of socket numbers
\* change that.  Without the room protocol_set_binary leaves the connection
\* out.
THEOREM RepliesFramed == RoomForAll => (Spec => []OwnRepliesFramed)
<1> SUFFICES ASSUME RoomForAll PROVE Spec => []OwnRepliesFramed
  OBVIOUS
<1>1. IInv /\ FInv /\ [Next]_vars => (IInv /\ FInv)'
  BY NextKeeps, NextFrames
<1>2. FInv => OwnRepliesFramed
  BY DEF FInv
<1> QED BY <1>1, <1>2, InitIInv, InitFInv, PTL DEF Spec

(***************************************************************************)
(* Receiver: lines and frames, whatever the cuts                           *)
(***************************************************************************)

\* Induction over the natural numbers, for a set instead of a predicate.
LEMMA SetInduction ==
  ASSUME NEW S, 0 \in S, \A n \in Nat : n \in S => n + 1 \in S
  PROVE  Nat \subseteq S
<1>1. SUFFICES ASSUME Nat \ S # {} PROVE FALSE
  OBVIOUS
<1>2. PICK n \in Nat \ S : \A m \in Nat \ S : <<m, n>> \notin OpToRel(<, Nat)
  BY <1>1, NatLessThanWellFounded, WFMin
<1>3. \A m \in Nat \ S : ~(m < n)
  BY <1>2 DEF OpToRel
<1>4. n - 1 \in S /\ n - 1 \in Nat
  BY <1>3
<1>5. n - 1 + 1 \in S
  BY <1>4
<1>6. n - 1 + 1 = n
  OBVIOUS
<1> QED BY <1>5, <1>6

\* A sequence that is read off from place to place: at the places in Go it has
\* an item and goes on at a place further behind, elsewhere it ends as Rest says.
IsReading(f, n, Go, Item, After, Rest) ==
    f = [i \in 1..n + 1 |->
           IF i \in Go THEN <<Item[i]>> \o f[After[i]] ELSE Rest[i]]

LEMMA ReadingExists ==
  ASSUME NEW n \in Nat, NEW Go, NEW Item, NEW After, NEW Rest,
         \A i \in Go : After[i] > i /\ After[i] \in 1..n + 1
  PROVE  \E f : IsReading(f, n, Go, Item, After, Rest)
<1> DEFINE Def(f, j) == IF j \in Go THEN <<Item[j]>> \o f[After[j]] ELSE Rest[j]
           Behind(m) == {j \in 1..n + 1 : j >= n + 1 - m}
           S == {m \in Nat : \E f : f = [j \in Behind(m) |-> Def(f, j)]}
<1>1. 0 \in S
  <2>1. \A j \in Behind(0) : j \notin Go
    OBVIOUS
  <2> DEFINE f == [j \in Behind(0) |-> Rest[j]]
  <2>2. f = [j \in Behind(0) |-> Def(f, j)]
    BY <2>1
  <2>3. \E h : h = [j \in Behind(0) |-> Def(h, j)]
    BY <2>2
  <2> QED BY <2>3
<1>2. ASSUME NEW m \in Nat, m \in S PROVE m + 1 \in S
  <2>1. PICK f : f = [j \in Behind(m) |-> Def(f, j)]
    BY <1>2
  <2> DEFINE g == [j \in Behind(m + 1) |-> Def(f, j)]
  <2>2. Behind(m) \subseteq Behind(m + 1)
    OBVIOUS
  <2>3. \A j \in Behind(m) : f[j] = Def(f, j)
    BY <2>1
  <2>4. \A j \in Behind(m) : g[j] = f[j]
    BY <2>2, <2>3
  <2>5. \A j \in Behind(m + 1) : j \in Go => After[j] \in Behind(m)
    OBVIOUS
  <2>6. ASSUME NEW j \in Behind(m + 1) PROVE Def(g, j) = Def(f, j)
    <3>1. j \in Go => g[After[j]] = f[After[j]]
      BY <2>4, <2>5
    <3> HIDE DEF g
    <3> QED BY <3>1
  <2>7. g = [j \in Behind(m + 1) |-> Def(g, j)]
    BY <2>6
  <2>8. \E h : h = [j \in Behind(m + 1) |-> Def(h, j)]
    BY <2>7
  <2>9. m + 1 \in Nat
    OBVIOUS
  <2> HIDE DEF Def, Behind
  <2> QED BY <2>8, <2>9
<1>3. n \in S
  <2> HIDE DEF S
  <2> QED BY <1>1, <1>2, SetInduction
<1>4. Behind(n) = 1..n + 1
  OBVIOUS
<1>5. PICK f : f = [j \in 1..n + 1 |-> Def(f, j)]
  BY <1>3, <1>4
<1>6. IsReading(f, n, Go, Item, After, Rest)
  BY <1>5 DEF IsReading
<1> QED BY <1>6

(***************************************************************************)
(* What the stream says                                                    *)
(***************************************************************************)

LEMMA FramesUnfold ==
  ASSUME NEW s, NEW n \in Nat, NEW i \in 1..n + 1
  PROVE  Frames(s, n, i) =
           IF FrameIn(s, n, i) THEN <<Payload(s, i)>> \o Frames(s, n, FrameEnd(s, i) + 1)
                               ELSE <<>>
<1> DEFINE Def(f, j) == IF FrameIn(s, n, j)
                        THEN <<Payload(s, j)>> \o f[FrameEnd(s, j) + 1] ELSE <<>>
           Go == {j \in 1..n + 1 : FrameIn(s, n, j)}
           Item == [j \in Go |-> Payload(s, j)]
           After == [j \in Go |-> FrameEnd(s, j) + 1]
           Rest == [j \in 1..n + 1 |-> <<>>]
<1>1. ASSUME NEW j \in 1..n + 1, FrameIn(s, n, j)
      PROVE  FrameEnd(s, j) + 1 > j /\ FrameEnd(s, j) + 1 \in 1..n + 1
  BY <1>1, MaxAssumption DEF FrameIn, FrameEnd
<1>2. \E f : f = [j \in 1..n + 1 |-> Def(f, j)]
  <2>1. \A j \in Go : After[j] > j /\ After[j] \in 1..n + 1
    BY <1>1
  <2>2. PICK f : IsReading(f, n, Go, Item, After, Rest)
    <3> HIDE DEF Go, Item, After, Rest
    <3> QED BY <2>1, ReadingExists
  <2>3. \A j \in 1..n + 1 :
          (IF j \in Go THEN <<Item[j]>> \o f[After[j]] ELSE Rest[j]) = Def(f, j)
    OBVIOUS
  <2>4. f = [j \in 1..n + 1 |-> Def(f, j)]
    BY <2>2, <2>3 DEF IsReading
  <2> QED BY <2>4
<1> DEFINE F == CHOOSE f : f = [j \in 1..n + 1 |-> Def(f, j)]
<1>3. F = [j \in 1..n + 1 |-> Def(F, j)]
  BY <1>2
<1>4. \A j \in 1..n + 1 : Frames(s, n, j) = F[j]
  BY DEF Frames
<1> HIDE DEF F
<1>5. Frames(s, n, i) = Def(F, i)
  BY <1>3, <1>4
<1>6. FrameIn(s, n, i) => F[FrameEnd(s, i) + 1] = Frames(s, n, FrameEnd(s, i) + 1)
  BY <1>1, <1>4
<1> QED BY <1>5, <1>6

LEMMA LinesUnfold ==
  ASSUME NEW s, NEW n \in Nat, NEW i \in 1..n + 1
  PROVE  Lines(s, n, i) =
           CASE LineEnds(s, n, i) = {} -> <<>>
             [] LineEnds(s, n, i) # {} /\ Text(s, n, i) = SwitchLine ->
                  Frames(s, n, LineEnd(s, n, i) + 1)
             [] OTHER -> <<Text(s, n, i)>> \o Lines(s, n, LineEnd(s, n, i) + 1)
<1> DEFINE Def(f, j) ==
               CASE LineEnds(s, n, j) = {} -> <<>>
                 [] LineEnds(s, n, j) # {} /\ Text(s, n, j) = SwitchLine ->
                      Frames(s, n, LineEnd(s, n, j) + 1)
                 [] OTHER -> <<Text(s, n, j)>> \o f[LineEnd(s, n, j) + 1]
           Go == {j \in 1..n + 1 : LineEnds(s, n, j) # {} /\ Text(s, n, j) # SwitchLine}
           Item == [j \in Go |-> Text(s, n, j)]
           After == [j \in Go |-> LineEnd(s, n, j) + 1]
           Rest == [j \in 1..n + 1 |-> IF LineEnds(s, n, j) = {} THEN <<>>
                                       ELSE Frames(s, n, LineEnd(s, n, j) + 1)]
<1>1. ASSUME NEW j \in 1..n + 1, LineEnds(s, n, j) # {}
      PROVE  LineEnd(s, n, j) + 1 > j /\ LineEnd(s, n, j) + 1 \in 1..n + 1
  <2>1. LineEnd(s, n, j) \in LineEnds(s, n, j)
    BY <1>1 DEF LineEnd
  <2> QED BY <2>1 DEF LineEnds
<1>2. \E f : f = [j \in 1..n + 1 |-> Def(f, j)]
  <2>1. \A j \in Go : After[j] > j /\ After[j] \in 1..n + 1
    BY <1>1
  <2>2. PICK f : IsReading(f, n, Go, Item, After, Rest)
    <3> HIDE DEF Go, Item, After, Rest
    <3> QED BY <2>1, ReadingExists
  <2>3. \A j \in 1..n + 1 :
          (IF j \in Go THEN <<Item[j]>> \o f[After[j]] ELSE Rest[j]) = Def(f, j)
    OBVIOUS
  <2>4. f = [j \in 1..n + 1 |-> Def(f, j)]
    BY <2>2, <2>3 DEF IsReading
  <2> QED BY <2>4
<1> DEFINE F == CHOOSE f : f = [j \in 1..n + 1 |-> Def(f, j)]
<1>3. F = [j \in 1..n + 1 |-> Def(F, j)]
  BY <1>2
<1>4. \A j \in 1..n + 1 : Lines(s, n, j) = F[j]
  BY DEF Lines
<1> HIDE DEF F
<1>5. Lines(s, n, i) = Def(F, i)
  BY <1>3, <1>4
<1>6. LineEnds(s, n, i) # {} => F[LineEnd(s, n, i) + 1] = Lines(s, n, LineEnd(s, n, i) + 1)
  BY <1>1, <1>4
<1> QED BY <1>5, <1>6

\* The messages are sequences of bytes.
LEMMA FrameFacts ==
  ASSUME NEW s \in Seq(Byte), NEW n \in 0..Len(s), NEW i \in 1..n + 1,
         FrameIn(s, n, i)
  PROVE  /\ FrameEnd(s, i) + 1 > i /\ FrameEnd(s, i) + 1 \in 1..n + 1
         /\ Payload(s, i) \in Seq(Byte)
         /\ Frames(s, n, i) = <<Payload(s, i)>> \o Frames(s, n, FrameEnd(s, i) + 1)
<1>1. n \in Nat /\ n <= Len(s) /\ Len(s) \in Nat
  OBVIOUS
<1>2. LengthAt(s, i) \in Nat \ {0} /\ SizeBytes \in Nat \ {0}
  BY MaxAssumption DEF FrameIn
<1>3. FrameEnd(s, i) <= n /\ FrameEnd(s, i) = i + SizeBytes + LengthAt(s, i) - 1
  BY DEF FrameIn, FrameEnd
<1>4. FrameEnd(s, i) + 1 > i /\ FrameEnd(s, i) + 1 \in 1..n + 1
  BY <1>1, <1>2, <1>3
<1>5. i + SizeBytes \in 1..Len(s) + 1 /\ FrameEnd(s, i) \in i + SizeBytes - 1..Len(s)
  BY <1>1, <1>2, <1>3
<1>6. Payload(s, i) \in Seq(Byte)
  BY <1>5, SubSeqProperties DEF Payload
<1> QED BY <1>1, <1>4, <1>6, FramesUnfold

LEMMA FramesType ==
  ASSUME NEW s \in Seq(Byte), NEW n \in 0..Len(s)
  PROVE  \A i \in 1..n + 1 : Frames(s, n, i) \in Seq(Seq(Byte))
<1> DEFINE S == {m \in Nat : \A j \in 1..n + 1 :
                     j >= n + 1 - m => Frames(s, n, j) \in Seq(Seq(Byte))}
<1>0. n \in Nat
  OBVIOUS
<1>1. ASSUME NEW j \in 1..n + 1, ~FrameIn(s, n, j)
      PROVE  Frames(s, n, j) \in Seq(Seq(Byte))
  <2>1. Frames(s, n, j) = <<>>
    BY <1>0, <1>1, FramesUnfold
  <2> QED BY <2>1
<1>2. 0 \in S
  <2>1. n + 1 \in 1..n + 1 /\ ~(n + 2 \in 1..n + 1)
    BY <1>0
  <2>2. ASSUME FrameIn(s, n, n + 1) PROVE FALSE
    <3>1. FrameEnd(s, n + 1) + 1 > n + 1 /\ FrameEnd(s, n + 1) + 1 \in 1..n + 1
      BY <2>1, <2>2, FrameFacts
    <3> QED BY <1>0, <3>1
  <2> QED BY <1>1, <2>2
<1>3. ASSUME NEW m \in Nat, m \in S PROVE m + 1 \in S
  <2> SUFFICES ASSUME NEW j \in 1..n + 1, j >= n + 1 - (m + 1)
               PROVE  Frames(s, n, j) \in Seq(Seq(Byte))
    OBVIOUS
  <2>1. CASE FrameIn(s, n, j)
    <3>0. /\ FrameEnd(s, j) + 1 > j /\ FrameEnd(s, j) + 1 \in 1..n + 1
          /\ Payload(s, j) \in Seq(Byte)
      BY <2>1, FrameFacts
    <3>1. Frames(s, n, FrameEnd(s, j) + 1) \in Seq(Seq(Byte))
      BY <1>3, <3>0
    <3>2. <<Payload(s, j)>> \in Seq(Seq(Byte))
      BY <3>0
    <3>3. Frames(s, n, j) = <<Payload(s, j)>> \o Frames(s, n, FrameEnd(s, j) + 1)
      BY <2>1, FrameFacts
    <3> QED BY <3>1, <3>2, <3>3, ConcatProperties
  <2> QED BY <1>1, <2>1
<1>4. n \in S
  <2> HIDE DEF S
  <2> QED BY <1>2, <1>3, SetInduction
<1> QED BY <1>4

LEMMA LineFacts ==
  ASSUME NEW s \in Seq(Byte), NEW n \in 0..Len(s), NEW i \in 1..n + 1,
         LineEnds(s, n, i) # {}
  PROVE  /\ LineEnd(s, n, i) \in LineEnds(s, n, i)
         /\ LineEnd(s, n, i) + 1 > i /\ LineEnd(s, n, i) + 1 \in 1..n + 1
         /\ Text(s, n, i) \in Seq(Byte)
         /\ Lines(s, n, i) =
              IF Text(s, n, i) = SwitchLine
              THEN Frames(s, n, LineEnd(s, n, i) + 1)
              ELSE <<Text(s, n, i)>> \o Lines(s, n, LineEnd(s, n, i) + 1)
<1>1. LineEnd(s, n, i) \in LineEnds(s, n, i)
  BY DEF LineEnd
<1>2. LineEnd(s, n, i) \in i..n
  BY <1>1 DEF LineEnds
<1>3. LineEnd(s, n, i) + 1 > i /\ LineEnd(s, n, i) + 1 \in 1..n + 1 /\ n \in Nat
  BY <1>2
<1>4. Text(s, n, i) \in Seq(Byte)
  BY <1>2, SubSeqProperties DEF Text
<1> QED BY <1>1, <1>3, <1>4, LinesUnfold

LEMMA NoLineLeft ==
  ASSUME NEW s, NEW n \in Nat, NEW i \in 1..n + 1, LineEnds(s, n, i) = {}
  PROVE  Lines(s, n, i) = <<>>
BY LinesUnfold

LEMMA LinesType ==
  ASSUME NEW s \in Seq(Byte), NEW n \in 0..Len(s)
  PROVE  \A i \in 1..n + 1 : Lines(s, n, i) \in Seq(Seq(Byte))
<1> DEFINE S == {m \in Nat : \A j \in 1..n + 1 :
                     j >= n + 1 - m => Lines(s, n, j) \in Seq(Seq(Byte))}
<1>0. n \in Nat
  OBVIOUS
<1>1. ASSUME NEW j \in 1..n + 1, LineEnds(s, n, j) = {}
      PROVE  Lines(s, n, j) \in Seq(Seq(Byte))
  <2>1. Lines(s, n, j) = <<>>
    BY <1>0, <1>1, NoLineLeft
  <2> QED BY <2>1
<1>2. 0 \in S
  <2>1. LineEnds(s, n, n + 1) = {}
    BY <1>0 DEF LineEnds
  <2> QED BY <1>1, <2>1
<1>3. ASSUME NEW m \in Nat, m \in S PROVE m + 1 \in S
  <2> SUFFICES ASSUME NEW j \in 1..n + 1, j >= n + 1 - (m + 1),
                      LineEnds(s, n, j) # {}
               PROVE  Lines(s, n, j) \in Seq(Seq(Byte))
    BY <1>1
  <2>1. LineEnd(s, n, j) + 1 > j /\ LineEnd(s, n, j) + 1 \in 1..n + 1
    BY LineFacts
  <2>2. /\ Lines(s, n, LineEnd(s, n, j) + 1) \in Seq(Seq(Byte))
        /\ Frames(s, n, LineEnd(s, n, j) + 1) \in Seq(Seq(Byte))
    BY <1>3, <2>1, FramesType
  <2>3. <<Text(s, n, j)>> \in Seq(Seq(Byte))
    <3>1. Text(s, n, j) \in Seq(Byte)
      BY LineFacts
    <3> QED BY <3>1
  <2>4. <<Text(s, n, j)>> \o Lines(s, n, LineEnd(s, n, j) + 1) \in Seq(Seq(Byte))
    BY <2>2, <2>3, ConcatProperties
  <2>5. Lines(s, n, j) \in {Frames(s, n, LineEnd(s, n, j) + 1),
                            <<Text(s, n, j)>> \o Lines(s, n, LineEnd(s, n, j) + 1)}
    BY LineFacts
  <2> QED BY <2>2, <2>4, <2>5
<1>4. n \in S
  <2> HIDE DEF S
  <2> QED BY <1>2, <1>3, SetInduction
<1> QED BY <1>4

(***************************************************************************)
(* A chunk, byte by byte                                                   *)
(***************************************************************************)

\* The states the line buffer goes through, from s on.
IsFeeding(run, s, bytes) ==
    /\ run[0] = s
    /\ \A k \in 1..Len(bytes) : run[k] = Feed(run[k - 1], bytes[k])
    /\ linebuf_feed(s, bytes) = run[Len(bytes)]

LEMMA FeedRuns ==
  ASSUME NEW s, NEW bytes, Len(bytes) \in Nat
  PROVE  \E run : IsFeeding(run, s, bytes)
<1> DEFINE Def(f, k) == IF k = 0 THEN s ELSE Feed(f[k - 1], bytes[k])
           S == {m \in Nat : \E f : f = [k \in 0..m |-> Def(f, k)]}
<1>1. 0 \in S
  <2> DEFINE f == [k \in 0..0 |-> s]
  <2>1. f = [k \in 0..0 |-> Def(f, k)]
    OBVIOUS
  <2>2. \E h : h = [k \in 0..0 |-> Def(h, k)]
    BY <2>1
  <2> QED BY <2>2
<1>2. ASSUME NEW m \in Nat, m \in S PROVE m + 1 \in S
  <2>1. PICK f : f = [k \in 0..m |-> Def(f, k)]
    BY <1>2
  <2> DEFINE g == [k \in 0..m + 1 |-> Def(f, k)]
  <2>2. \A k \in 0..m : f[k] = g[k]
    BY <2>1
  <2>3. ASSUME NEW k \in 0..m + 1 PROVE Def(g, k) = Def(f, k)
    <3>1. k # 0 => k - 1 \in 0..m
      OBVIOUS
    <3>2. k # 0 => g[k - 1] = f[k - 1]
      BY <2>2, <3>1, Zenon
    <3> HIDE DEF g
    <3> QED BY <3>2
  <2>4. g = [k \in 0..m + 1 |-> Def(g, k)]
    BY <2>3
  <2>5. \E h : h = [k \in 0..m + 1 |-> Def(h, k)]
    BY <2>4
  <2>6. m + 1 \in Nat
    OBVIOUS
  <2> HIDE DEF Def
  <2> QED BY <2>5, <2>6
<1>3. Len(bytes) \in S
  <2> HIDE DEF S
  <2> QED BY <1>1, <1>2, SetInduction
<1> DEFINE run == CHOOSE f : f = [k \in 0..Len(bytes) |-> Def(f, k)]
<1>4. run = [k \in 0..Len(bytes) |-> Def(run, k)]
  BY <1>3
<1>5. linebuf_feed(s, bytes) = run[Len(bytes)]
  BY DEF linebuf_feed
<1> HIDE DEF run
<1>6. \A k \in 0..Len(bytes) : run[k] = Def(run, k)
  BY <1>4
<1>7. IsFeeding(run, s, bytes)
  BY <1>5, <1>6 DEF IsFeeding
<1> QED BY <1>7

(***************************************************************************)
(* The line buffer                                                         *)
(***************************************************************************)

\* After q bytes the buffer holds what came since the last newline.
Held(text, q, s) ==
    /\ Len(text) < LineMax
    /\ Len(text) <= q
    /\ text = SubSeq(s, q - Len(text) + 1, q)
    /\ \A j \in q - Len(text) + 1..q : s[j] # nl
    /\ q = Len(text) \/ s[q - Len(text)] = nl

LEMMA LineCloses ==
  ASSUME NEW s \in Seq(Byte), NEW q \in 0..Len(s) - 1, NEW text \in Seq(Byte),
         Held(text, q, s), s[q + 1] = nl, NEW n \in q + 1..Len(s)
  PROVE  Lines(s, n, q - Len(text) + 1) =
           IF text = SwitchLine THEN Frames(s, n, q + 2)
                                ELSE <<text>> \o Lines(s, n, q + 2)
<1> DEFINE i == q - Len(text) + 1
<1>0. Len(text) \in Nat /\ q \in Nat /\ Len(s) \in Nat /\ n \in Nat
  OBVIOUS
<1>1. i \in 1..n + 1 /\ q + 1 - i = Len(text) /\ q + 1 \in i..n
  BY <1>0 DEF Held
<1>2. q + 1 \in LineEnds(s, n, i)
  BY <1>0, <1>1 DEF Held, LineEnds
<1>3. \A e \in LineEnds(s, n, i) : e = q + 1
  <2> SUFFICES ASSUME NEW e \in LineEnds(s, n, i), e # q + 1 PROVE FALSE
    OBVIOUS
  <2>1. e \in i..n /\ s[e] = nl /\ \A j \in i..e - 1 : s[j] # nl
    BY DEF LineEnds
  <2>2. CASE e < q + 1
    BY <1>0, <1>1, <2>1, <2>2 DEF Held
  <2>3. CASE e > q + 1
    BY <1>0, <1>1, <2>1, <2>3
  <2> QED BY <1>0, <2>1, <2>2, <2>3
<1>4. LineEnd(s, n, i) = q + 1
  BY <1>2, <1>3 DEF LineEnd
<1>5. Text(s, n, i) = text
  BY <1>0, <1>4 DEF Text, Held
<1>6. n \in 0..Len(s) /\ q + 1 + 1 = q + 2 /\ LineEnds(s, n, i) # {}
  BY <1>0, <1>2
<1>7. Lines(s, n, i) = IF Text(s, n, i) = SwitchLine
                       THEN Frames(s, n, LineEnd(s, n, i) + 1)
                       ELSE <<Text(s, n, i)>> \o Lines(s, n, LineEnd(s, n, i) + 1)
  <2> HIDE DEF i
  <2> QED BY <1>1, <1>6, LineFacts
<1> QED BY <1>4, <1>5, <1>6, <1>7

LEMMA LineTooLong ==
  ASSUME NEW s \in Seq(Byte), NEW q \in 0..Len(s) - 1, NEW text \in Seq(Byte),
         Held(text, q, s), s[q + 1] # nl, Len(text) + 1 >= LineMax,
         NEW n \in q + 1..Len(s)
  PROVE  Lines(s, n, q - Len(text) + 1) = <<>>
<1> DEFINE i == q - Len(text) + 1
<1>0. /\ Len(text) \in Nat /\ q \in Nat /\ Len(s) \in Nat /\ n \in Nat
      /\ LineMax \in Nat
  BY MaxAssumption
<1>1. i \in 1..n + 1 /\ q + 1 - i = Len(text)
  BY <1>0 DEF Held
<1>2. ASSUME NEW e \in LineEnds(s, n, i) PROVE FALSE
  <2>1. e \in i..n /\ s[e] = nl /\ e - i < LineMax
    BY DEF LineEnds
  <2>2. CASE e <= q
    BY <1>0, <1>1, <2>1, <2>2 DEF Held
  <2>3. e # q + 1
    BY <2>1
  <2>4. CASE e > q + 1
    BY <1>0, <1>1, <2>1, <2>4
  <2> QED BY <1>0, <2>1, <2>2, <2>3, <2>4
<1> QED BY <1>0, <1>1, <1>2, NoLineLeft

LEMMA LineOpen ==
  ASSUME NEW s \in Seq(Byte), NEW q \in 0..Len(s), NEW text \in Seq(Byte),
         Held(text, q, s)
  PROVE  Lines(s, q, q - Len(text) + 1) = <<>>
<1>1. q \in Nat /\ q - Len(text) + 1 \in 1..q + 1
  BY DEF Held
<1>2. LineEnds(s, q, q - Len(text) + 1) = {}
  BY <1>1 DEF LineEnds, Held
<1> QED BY <1>1, <1>2, NoLineLeft

LEMMA LineGrows ==
  ASSUME NEW s \in Seq(Byte), NEW q \in 0..Len(s) - 1, NEW text \in Seq(Byte),
         Held(text, q, s), s[q + 1] # nl, Len(text) + 1 < LineMax
  PROVE  /\ Held(Append(text, s[q + 1]), q + 1, s)
         /\ q + 1 - Len(Append(text, s[q + 1])) + 1 = q - Len(text) + 1
<1> DEFINE i == q - Len(text) + 1
           more == Append(text, s[q + 1])
<1>0. Len(text) \in Nat /\ q \in Nat /\ Len(s) \in Nat /\ s[q + 1] \in Byte
  OBVIOUS
<1>1. Len(more) = Len(text) + 1
  OBVIOUS
<1>2. i \in 1..Len(s) /\ q + 1 \in i..Len(s) /\ q + 1 - Len(more) + 1 = i
  BY <1>0, <1>1 DEF Held
<1>3. more = SubSeq(s, i, q + 1)
  <2>1. SubSeq(s, i, q + 1) = SubSeq(s, i, q + 1 - 1) \o <<s[q + 1]>>
    <3>1. q + 1 \in 1..Len(s) /\ i \in 1..Len(s) /\ q + 1 \in i..Len(s)
      BY <1>0, <1>2
    <3> HIDE DEF i
    <3> QED BY <3>1, SubSeqRecursiveSecond
  <2>2. q + 1 - 1 = q /\ text = SubSeq(s, i, q)
    BY <1>0 DEF Held
  <2>3. text \o <<s[q + 1]>> = Append(text, s[q + 1])
    BY AppendIsConcat
  <2> QED BY <2>1, <2>2, <2>3
<1>4. \A j \in i..q + 1 : s[j] # nl
  BY <1>0, <1>2 DEF Held
<1>5. q + 1 = Len(more) \/ s[q + 1 - Len(more)] = nl
  BY <1>0, <1>1 DEF Held
<1> QED BY <1>0, <1>1, <1>2, <1>3, <1>4, <1>5 DEF Held

\* A place where the line BINARY ends.
IsSwitch(s, i) ==
    /\ i \in 2..Len(s)
    /\ s[i] = nl /\ <<s[i - 1]>> = SwitchLine
    /\ i = 2 \/ s[i - 2] = nl

LEMMA SwitchFound ==
  ASSUME NEW s \in Seq(Byte), NEW q \in 0..Len(s) - 1,
         Held(SwitchLine, q, s), s[q + 1] = nl
  PROVE  IsSwitch(s, q + 1)
<1>0. q \in Nat /\ Len(s) \in Nat /\ Len(SwitchLine) = 1
  BY DEF SwitchLine
<1>1. q >= 1 /\ SwitchLine = SubSeq(s, q, q) /\ (q = 1 \/ s[q - 1] = nl)
  BY <1>0 DEF Held
<1>2. SubSeq(s, q, q)[1] = s[q]
  <2>1. q \in 1..Len(s) /\ q \in q..Len(s)
    BY <1>0, <1>1
  <2>2. Head(SubSeq(s, q, q)) = s[q]
    BY <2>1, HeadTailOfSubSeq
  <2> QED BY <1>1, <2>2 DEF SwitchLine
<1>3. <<s[q]>> = SwitchLine
  BY <1>1, <1>2 DEF SwitchLine
<1>4. q + 1 - 1 = q /\ q + 1 - 2 = q - 1 /\ q + 1 \in 2..Len(s)
  BY <1>0, <1>1
<1>5. q + 1 = 2 \/ s[q - 1] = nl
  BY <1>0, <1>1
<1> QED BY <1>3, <1>4, <1>5 DEF IsSwitch

FeedState == [mode : {"lines", "frames", "closed"}, line : Seq(Byte), out : Seq(Seq(Byte))]

\* What is still to be handed on after q of n bytes.
StillToCome(st, q, s, n) ==
    CASE st.mode = "lines"  -> Lines(s, n, q - Len(st.line) + 1)
      [] st.mode = "frames" -> Frames(s, n, q + 1)
      [] OTHER              -> <<>>

\* The line buffer agrees with the stream s of which it has taken q bytes.
Agrees(st, q, s) ==
    /\ st \in FeedState
    /\ st.mode = "lines" => Held(st.line, q, s)
    /\ \A n \in q..Len(s) : Lines(s, n, 1) = st.out \o StillToCome(st, q, s, n)

LEMMA Piece ==
  ASSUME NEW s \in Seq(Byte), NEW m \in 1..Len(s) + 1, NEW k \in m - 1..Len(s)
  PROVE  SubSeq(s, m, k) \in Seq(Byte) /\ Len(SubSeq(s, m, k)) = k - m + 1
BY SubSeqProperties

LEMMA AppendThenMore ==
  ASSUME NEW a \in Seq(Seq(Byte)), NEW b \in Seq(Byte), NEW c \in Seq(Seq(Byte))
  PROVE  Append(a, b) \o c = a \o (<<b>> \o c)
<1>1. <<b>> \in Seq(Seq(Byte))
  OBVIOUS
<1>2. (a \o <<b>>) \o c = a \o (<<b>> \o c)
  BY <1>1, ConcatAssociative
<1>3. Append(a, b) = a \o <<b>>
  BY AppendIsConcat
<1> QED BY <1>2, <1>3

LEMMA ToCome ==
  ASSUME NEW st, NEW q, NEW s, NEW n
  PROVE  /\ st.mode = "lines" => StillToCome(st, q, s, n) = Lines(s, n, q - Len(st.line) + 1)
         /\ st.mode = "frames" => StillToCome(st, q, s, n) = Frames(s, n, q + 1)
         /\ st.mode = "closed" => StillToCome(st, q, s, n) = <<>>
BY DEF StillToCome

LEMMA FeedStep ==
  ASSUME NEW s \in Seq(Byte), NEW q \in 0..Len(s) - 1, NEW st,
         Agrees(st, q, s), st.mode # "frames"
  PROVE  /\ Agrees(Feed(st, s[q + 1]), q + 1, s)
         /\ Feed(st, s[q + 1]).mode = "frames" => IsSwitch(s, q + 1)
<1> SUFFICES ASSUME NEW new, new = Feed(st, s[q + 1])
             PROVE  Agrees(new, q + 1, s) /\ (new.mode = "frames" => IsSwitch(s, q + 1))
  OBVIOUS
<1>0. /\ q \in Nat /\ Len(s) \in Nat /\ q + 1 \in 0..Len(s) /\ s[q + 1] \in Byte
      /\ st.line \in Seq(Byte) /\ Len(st.line) \in Nat /\ st.out \in Seq(Seq(Byte))
      /\ LineMax \in Nat \ {0} /\ <<>> \in Seq(Byte)
  BY MaxAssumption DEF Agrees, FeedState
<1>1. CASE st.mode = "closed"
  <2>1. new = st
    BY <1>1 DEF Feed
  <2>2. \A n \in q + 1..Len(s) : n \in q..Len(s)
    BY <1>0
  <2>3. \A n \in q + 1..Len(s) : StillToCome(st, q, s, n) = StillToCome(st, q + 1, s, n)
    BY <1>1, ToCome
  <2> QED BY <1>1, <2>1, <2>2, <2>3 DEF Agrees
<1>2. CASE st.mode = "lines"
  <2> DEFINE i == q - Len(st.line) + 1
  <2>0. /\ Held(st.line, q, s)
        /\ \A n \in q + 1..Len(s) : n \in Nat
        /\ \A n \in q + 1..Len(s) : Lines(s, n, 1) = st.out \o Lines(s, n, i)
    <3>1. \A n \in q + 1..Len(s) : n \in q..Len(s) /\ n \in Nat
      BY <1>0
    <3>2. \A n \in q + 1..Len(s) : StillToCome(st, q, s, n) = Lines(s, n, i)
      BY <1>2, ToCome
    <3> HIDE DEF i
    <3> QED BY <1>2, <3>1, <3>2 DEF Agrees
  <2>1. CASE s[q + 1] = nl /\ st.line = SwitchLine
    <3>1. new = [mode |-> "frames", line |-> <<>>, out |-> st.out]
      BY <1>2, <2>1 DEF Feed
    <3>2. \A n \in q + 1..Len(s) : Lines(s, n, i) = Frames(s, n, q + 2)
      BY <1>0, <2>0, <2>1, LineCloses
    <3>3. IsSwitch(s, q + 1)
      BY <2>0, <2>1, SwitchFound
    <3>4. q + 1 + 1 = q + 2
      BY <1>0
    <3>5. new \in FeedState
      BY <1>0, <3>1 DEF FeedState
    <3>6. new.mode = "frames" /\ new.out = st.out
      BY <3>1
    <3>7. \A n \in q + 1..Len(s) : StillToCome(new, q + 1, s, n) = Frames(s, n, q + 2)
      BY <3>4, <3>6, ToCome
    <3> HIDE DEF i
    <3> QED BY <2>0, <3>2, <3>3, <3>5, <3>6, <3>7 DEF Agrees
  <2>2. CASE s[q + 1] = nl /\ st.line # SwitchLine
    <3>1. new = [mode |-> "lines", line |-> <<>>, out |-> Append(st.out, st.line)]
      BY <1>2, <2>2 DEF Feed
    <3>2. new \in FeedState
      <4>1. Append(st.out, st.line) \in Seq(Seq(Byte))
        BY <1>0, AppendProperties
      <4> QED BY <1>0, <3>1, <4>1 DEF FeedState
    <3>3. Held(<<>>, q + 1, s)
      <4>1. <<>> = SubSeq(s, q + 1 - 0 + 1, q + 1)
        BY <1>0, SubSeqEmpty
      <4> QED BY <1>0, <2>2, <4>1, Len(<<>>) = 0 DEF Held
    <3>4. ASSUME NEW n \in q + 1..Len(s)
          PROVE  Lines(s, n, 1) = Append(st.out, st.line) \o Lines(s, n, q + 2)
      <4>1. Lines(s, n, i) = <<st.line>> \o Lines(s, n, q + 2)
        BY <1>0, <2>0, <2>2, LineCloses
      <4>2. n \in 0..Len(s) /\ q + 2 \in 1..n + 1
        BY <1>0
      <4>3. Lines(s, n, q + 2) \in Seq(Seq(Byte))
        BY <4>2, LinesType
      <4>4. /\ st.out \in Seq(Seq(Byte)) /\ st.line \in Seq(Byte)
        BY <1>0
      <4>5. Append(st.out, st.line) \o Lines(s, n, q + 2)
              = st.out \o (<<st.line>> \o Lines(s, n, q + 2))
        BY <4>3, <4>4, AppendThenMore
      <4> QED BY <2>0, <4>1, <4>5
    <3>5. q + 1 - Len(new.line) + 1 = q + 2
      BY <1>0, <3>1, Len(<<>>) = 0
    <3>6. /\ new.mode = "lines" /\ new.line = <<>>
          /\ new.out = Append(st.out, st.line)
      BY <3>1
    <3>7. \A n \in q + 1..Len(s) : StillToCome(new, q + 1, s, n) = Lines(s, n, q + 2)
      BY <3>5, <3>6, ToCome
    <3> HIDE DEF i
    <3> QED BY <3>2, <3>3, <3>4, <3>6, <3>7 DEF Agrees
  <2>3. CASE s[q + 1] # nl /\ Len(st.line) + 1 >= LineMax
    <3>1. new = [st EXCEPT !.mode = "closed", !.line = <<>>]
      BY <1>2, <2>3 DEF Feed
    <3>2. new \in FeedState /\ new.mode = "closed" /\ new.out = st.out
      BY <1>0, <3>1 DEF FeedState, Agrees
    <3>3. \A n \in q + 1..Len(s) : Lines(s, n, i) = <<>>
      BY <1>0, <2>0, <2>3, LineTooLong
    <3>4. \A n \in q + 1..Len(s) : StillToCome(new, q + 1, s, n) = <<>>
      BY <3>2, ToCome
    <3> HIDE DEF i
    <3> QED BY <2>0, <3>2, <3>3, <3>4 DEF Agrees
  <2>4. CASE s[q + 1] # nl /\ ~(Len(st.line) + 1 >= LineMax)
    <3> DEFINE more == Append(st.line, s[q + 1])
    <3>1. new = [st EXCEPT !.line = more]
      BY <1>2, <2>4 DEF Feed
    <3>2. more \in Seq(Byte)
      BY <1>0, AppendProperties
    <3>3. new \in FeedState /\ new.mode = "lines" /\ new.line = more /\ new.out = st.out
      BY <1>2, <3>1, <3>2 DEF FeedState, Agrees
    <3>4. Len(st.line) + 1 < LineMax
      BY <1>0, <2>4
    <3>5. Held(more, q + 1, s) /\ q + 1 - Len(more) + 1 = i
      BY <1>0, <2>0, <2>4, <3>4, LineGrows
    <3> HIDE DEF more, i
    <3>6. \A n \in q + 1..Len(s) : StillToCome(new, q + 1, s, n) = Lines(s, n, i)
      BY <3>3, <3>5, ToCome
    <3> QED BY <2>0, <3>3, <3>5, <3>6 DEF Agrees
  <2> QED BY <2>1, <2>2, <2>3, <2>4
<1> QED BY <1>1, <1>2 DEF Agrees, FeedState

\* A chunk with no switch to binary before its last byte.
LEMMA FeedChunk ==
  ASSUME NEW s \in Seq(Byte), NEW q \in 0..Len(s), NEW n \in Nat, q + n <= Len(s),
         NEW st, Agrees(st, q, s), st.mode = "lines",
         \A i \in q + 1..q + n - 1 : ~IsSwitch(s, i)
  PROVE  Agrees(linebuf_feed(st, SubSeq(s, q + 1, q + n)), q + n, s)
<1> SUFFICES ASSUME NEW bytes, bytes = SubSeq(s, q + 1, q + n)
             PROVE  Agrees(linebuf_feed(st, bytes), q + n, s)
  OBVIOUS
<1>0. q \in Nat /\ Len(s) \in Nat
  OBVIOUS
<1>1. Len(bytes) = n /\ \A k \in 1..n : bytes[k] = s[q + k]
  <2>1. q + 1 \in Int /\ q + n \in Int /\ \A i \in q + 1..q + n : s[i] \in Byte
    BY <1>0
  <2>2. /\ Len(bytes) = IF q + 1 <= q + n THEN q + n - (q + 1) + 1 ELSE 0
        /\ \A i \in 1..q + n - (q + 1) + 1 : bytes[i] = s[q + 1 + i - 1]
    BY <2>1, SubSeqProperties
  <2>3. \A k \in 1..n : q + 1 + k - 1 = q + k
    BY <1>0
  <2> QED BY <1>0, <2>2, <2>3
<1>2. PICK run : /\ run[0] = st
                 /\ \A k \in 1..n : run[k] = Feed(run[k - 1], bytes[k])
                 /\ linebuf_feed(st, bytes) = run[n]
  <2>1. Len(bytes) = n /\ Len(bytes) \in Nat
    BY <1>1
  <2>2. PICK run : IsFeeding(run, st, bytes)
    BY <2>1, FeedRuns
  <2> QED BY <2>1, <2>2 DEF IsFeeding
<1> DEFINE S == {k \in Nat : k <= n =>
                   /\ Agrees(run[k], q + k, s)
                   /\ k < n => run[k].mode # "frames"}
<1>3. 0 \in S
  BY <1>0, <1>2
<1>4. ASSUME NEW k \in Nat, k \in S PROVE k + 1 \in S
  <2> SUFFICES ASSUME k + 1 <= n
               PROVE  /\ Agrees(run[k + 1], q + (k + 1), s)
                      /\ k + 1 < n => run[k + 1].mode # "frames"
    OBVIOUS
  <2>1. Agrees(run[k], q + k, s) /\ run[k].mode # "frames"
    BY <1>4
  <2>2. k + 1 \in 1..n /\ k + 1 - 1 = k /\ q + (k + 1) = q + k + 1 /\ q + k \in 0..Len(s) - 1
    BY <1>0
  <2>3. run[k + 1] = Feed(run[k], s[q + k + 1])
    BY <1>1, <1>2, <2>2
  <2>4. /\ Agrees(run[k + 1], q + k + 1, s)
        /\ run[k + 1].mode = "frames" => IsSwitch(s, q + k + 1)
    BY <2>1, <2>2, <2>3, FeedStep
  <2>5. k + 1 < n => q + k + 1 \in q + 1..q + n - 1
    BY <1>0
  <2> QED BY <2>2, <2>4, <2>5
<1>5. n \in S
  <2> HIDE DEF S
  <2> QED BY <1>3, <1>4, SetInduction
<1>6. Agrees(run[n], q + n, s)
  BY <1>5
<1> QED BY <1>2, <1>6

(***************************************************************************)
(* The connection                                                          *)
(***************************************************************************)

\* Where the frame begins that is being received.
Begun == pos - Len(part) - (IF size = 0 THEN 0 ELSE SizeBytes) + 1

ReceiverTypeOK ==
    /\ sent \in Seq(Byte) /\ pos \in 0..Len(sent)
    /\ mode \in {"lines", "frames", "closed"}
    /\ line \in Seq(Byte) /\ out \in Seq(Seq(Byte))
    /\ part \in Seq(Byte) /\ size \in 0..FrameMax
    /\ written \in 0..Len(sent)

\* In the first phase nothing behind BINARY has been sent.
Waits == \A i \in SwitchEnds : written <= i

\* What recv_all holds is the end of what has been received.
FrameUnderWay ==
    /\ Begun \in 1..pos + 1
    /\ Len(part) < Wanted
    /\ part = SubSeq(sent, pos - Len(part) + 1, pos)
    /\ size # 0 => size = LengthAt(sent, Begun)
    /\ \A n \in pos..Len(sent) : Lines(sent, n, 1) = out \o Frames(sent, n, Begun)

RInv ==
    /\ ReceiverTypeOK
    /\ mode = "lines" => Agrees(Input, pos, sent) /\ size = 0 /\ part = <<>> /\ Waits
    /\ mode = "frames" => FrameUnderWay
    /\ mode = "closed" => DeliveredAsFramed

LEMMA MinIs ==
  ASSUME NEW S, NEW m \in S, S \subseteq Nat, \A y \in S : m <= y
  PROVE  Min(S) = m
<1>1. \E x \in S : \A y \in S : x <= y
  OBVIOUS
<1>2. Min(S) \in S /\ \A y \in S : Min(S) <= y
  BY <1>1 DEF Min
<1>3. Min(S) \in Nat /\ m \in Nat /\ m <= Min(S) /\ Min(S) <= m
  BY <1>2
<1> QED BY <1>3

LEMMA Least ==
  ASSUME NEW S, S \subseteq Nat, S # {}
  PROVE  \E m \in S : \A i \in S : m <= i
<1>0. S \subseteq Nat /\ S # {}
  OBVIOUS
<1>1. PICK m \in S : \A i \in S : <<i, m>> \notin OpToRel(<, Nat)
  BY <1>0, NatLessThanWellFounded, WFMin, Zenon
<1>2. \A i \in S : ~(i < m)
  BY <1>1 DEF OpToRel
<1> QED BY <1>2

LEMMA SwitchFirst ==
  ASSUME SwitchEnds # {}
  PROVE  Min(SwitchEnds) \in SwitchEnds /\ \A i \in SwitchEnds : Min(SwitchEnds) <= i
<1>1. SwitchEnds \subseteq Nat
  BY DEF SwitchEnds
<1>2. PICK m \in SwitchEnds : \A i \in SwitchEnds : m <= i
  BY <1>1, Least
<1> QED BY <1>1, <1>2, MinIs

LEMMA RInvInit == ReceiverInit => RInv
<1> SUFFICES ASSUME ReceiverInit PROVE RInv
  OBVIOUS
<1> USE DEF ReceiverInit
<1>0. written \in 0..Len(sent) /\ Waits
  <2>1. SwitchEnds \subseteq 0..Len(sent)
    BY DEF SwitchEnds
  <2>2. CASE SwitchEnds = {}
    BY <2>2 DEF Leading, Waits
  <2>3. CASE SwitchEnds # {}
    BY <2>1, <2>3, SwitchFirst DEF Leading, Waits
  <2> QED BY <2>2, <2>3
<1>1. ReceiverTypeOK
  BY <1>0, MaxAssumption DEF ReceiverTypeOK
<1>2. Held(<<>>, 0, sent)
  <2>1. <<>> = SubSeq(sent, 0 - 0 + 1, 0)
    BY SubSeqEmpty
  <2> QED BY <2>1, MaxAssumption, Len(<<>>) = 0 DEF Held
<1>3. /\ Input \in FeedState /\ Input.mode = "lines" /\ Input.line = <<>>
      /\ Input.out = <<>>
  BY DEF Input, FeedState
<1>4. ASSUME NEW n \in 0..Len(sent)
      PROVE  Lines(sent, n, 1) = Input.out \o StillToCome(Input, 0, sent, n)
  <2>1. StillToCome(Input, 0, sent, n) = Lines(sent, n, 1)
    <3>1. 0 - Len(Input.line) + 1 = 1
      BY <1>3, Len(<<>>) = 0
    <3> QED BY <1>3, <3>1, ToCome
  <2>2. Lines(sent, n, 1) \in Seq(Seq(Byte))
    BY LinesType
  <2> QED BY <1>3, <2>1, <2>2, ConcatEmptySeq
<1>5. Agrees(Input, pos, sent)
  BY <1>2, <1>3, <1>4 DEF Agrees
<1> QED BY <1>0, <1>1, <1>5 DEF RInv

\* What is under way has not been handed on.
LEMMA RInvDelivers == RInv => DeliveredAsFramed
<1> SUFFICES ASSUME RInv PROVE DeliveredAsFramed
  OBVIOUS
<1>0. /\ sent \in Seq(Byte) /\ pos \in 0..Len(sent) /\ pos \in pos..Len(sent)
      /\ out \in Seq(Seq(Byte)) /\ out \o <<>> = out
  <2>1. sent \in Seq(Byte) /\ pos \in 0..Len(sent) /\ out \in Seq(Seq(Byte))
    BY DEF RInv, ReceiverTypeOK
  <2> QED BY <2>1, ConcatEmptySeq
<1>1. CASE mode = "lines"
  <2>1. Input.mode = "lines" /\ Input.line = line /\ Input.out = out
    BY <1>1 DEF Input
  <2>2. /\ Held(line, pos, sent) /\ line \in Seq(Byte)
        /\ Lines(sent, pos, 1) = out \o StillToCome(Input, pos, sent, pos)
    BY <1>0, <1>1, <2>1 DEF RInv, Agrees, ReceiverTypeOK
  <2>3. StillToCome(Input, pos, sent, pos) = Lines(sent, pos, pos - Len(line) + 1)
    BY <2>1, ToCome
  <2>4. Lines(sent, pos, pos - Len(line) + 1) = <<>>
    BY <1>0, <2>2, LineOpen
  <2> QED BY <1>0, <2>2, <2>3, <2>4 DEF DeliveredAsFramed
<1>2. CASE mode = "frames"
  <2>1. FrameUnderWay /\ part \in Seq(Byte) /\ size \in Nat /\ SizeBytes \in Nat \ {0}
    BY <1>2, MaxAssumption DEF RInv, ReceiverTypeOK
  <2>2. ~FrameIn(sent, pos, Begun)
    <3>1. CASE size = 0
      BY <1>0, <2>1, <3>1 DEF FrameUnderWay, Wanted, Begun, FrameIn
    <3>2. CASE size # 0
      <4>1. FrameEnd(sent, Begun) = Begun + SizeBytes + size - 1
        BY <2>1, <3>2 DEF FrameUnderWay, FrameEnd
      <4> QED BY <1>0, <2>1, <3>2, <4>1, SMTT(30) DEF FrameUnderWay, Wanted, Begun, FrameIn
    <3> QED BY <3>1, <3>2
  <2>3. Begun \in 1..pos + 1 /\ pos \in Nat
    BY <1>0, <2>1 DEF FrameUnderWay
  <2>4. Frames(sent, pos, Begun) = <<>>
    BY <2>2, <2>3, FramesUnfold
  <2> QED BY <1>0, <2>1, <2>4 DEF FrameUnderWay, DeliveredAsFramed
<1>3. CASE mode = "closed"
  BY <1>3 DEF RInv
<1> QED BY <1>1, <1>2, <1>3 DEF RInv, ReceiverTypeOK

LEMMA RInvLines ==
  ASSUME RInv, NEW n \in 1..ChunkMax, RecvLines(n)
  PROVE  RInv'
<1> DEFINE st == linebuf_feed(Input, Chunk(n))
<1>0. /\ sent \in Seq(Byte) /\ pos \in 0..Len(sent) /\ n \in Nat
      /\ pos + n <= Len(sent) /\ mode = "lines" /\ size = 0 /\ part = <<>>
      /\ Len(sent) \in Nat /\ pos \in Nat
      /\ written \in 0..Len(sent) /\ pos + n <= written /\ written' = written /\ Waits
  BY MaxAssumption DEF RInv, ReceiverTypeOK, RecvLines
<1>1. Agrees(Input, pos, sent) /\ Input.mode = "lines"
  BY <1>0 DEF RInv, Input
<1>2. \A i \in pos + 1..pos + n - 1 : ~IsSwitch(sent, i)
  <2> SUFFICES ASSUME NEW i \in pos + 1..pos + n - 1, IsSwitch(sent, i) PROVE FALSE
    OBVIOUS
  <2>1. i \in SwitchEnds
    BY DEF IsSwitch, SwitchEnds
  <2> QED BY <1>0, <2>1 DEF Waits
<1>3. Agrees(st, pos + n, sent)
  BY <1>0, <1>1, <1>2, FeedChunk DEF Chunk
<1>4. /\ mode' = st.mode /\ line' = st.line /\ out' = st.out
      /\ pos' = pos + n /\ sent' = sent /\ size' = 0 /\ part' = <<>>
  BY <1>0 DEF RecvLines
<1> HIDE DEF st
<1>5. pos + n \in 0..Len(sent) /\ st \in FeedState
  BY <1>0, <1>3 DEF Agrees
<1>6. ReceiverTypeOK'
  BY <1>0, <1>4, <1>5, MaxAssumption DEF ReceiverTypeOK, FeedState
<1>7. Input' = st
  BY <1>4, <1>5 DEF Input, FeedState
<1>8. mode' = "lines" => /\ Agrees(Input, pos, sent)' /\ size' = 0 /\ part' = <<>>
                         /\ Waits'
  BY <1>0, <1>3, <1>4, <1>7 DEF Agrees, StillToCome, Waits, SwitchEnds
<1>9. ASSUME st.mode = "frames" PROVE FrameUnderWay'
  <2>1. Begun' = pos + n + 1 /\ Len(<<>>) = 0
    BY <1>0, <1>4 DEF Begun
  <2>2. <<>> = SubSeq(sent, pos + n - 0 + 1, pos + n)
    BY <1>0, SubSeqEmpty
  <2>3. \A k \in pos + n..Len(sent) :
           Lines(sent, k, 1) = st.out \o Frames(sent, k, pos + n + 1)
    BY <1>3, <1>9, ToCome DEF Agrees
  <2>4. Wanted' = SizeBytes /\ SizeBytes \in Nat \ {0}
    BY <1>4, MaxAssumption DEF Wanted
  <2>5. Begun' \in 1..pos' + 1 /\ Len(part') < Wanted'
    BY <1>0, <1>4, <2>1, <2>4
  <2>6. part' = SubSeq(sent', pos' - Len(part') + 1, pos')
    BY <1>4, <2>1, <2>2
  <2>7. \A k \in pos'..Len(sent') : Lines(sent', k, 1) = out' \o Frames(sent', k, Begun')
    BY <1>4, <2>1, <2>3
  <2> QED BY <1>4, <2>5, <2>6, <2>7 DEF FrameUnderWay
<1>10. ASSUME st.mode = "closed" PROVE DeliveredAsFramed'
  <2>1. pos + n \in pos + n..Len(sent)
    BY <1>0
  <2>2. Lines(sent, pos + n, 1) = st.out \o <<>>
    <3>1. StillToCome(st, pos + n, sent, pos + n) = <<>>
      BY <1>10, ToCome
    <3> QED BY <1>3, <2>1, <3>1 DEF Agrees
  <2>3. st.out \o <<>> = st.out
    BY <1>5, ConcatEmptySeq DEF FeedState
  <2> QED BY <1>4, <2>2, <2>3 DEF DeliveredAsFramed
<1> QED BY <1>4, <1>6, <1>8, <1>9, <1>10 DEF RInv

LEMMA RInvFrame ==
  ASSUME RInv, NEW n \in 1..ChunkMax, RecvFrame(n)
  PROVE  RInv'
<1>a. PICK whole : whole = part \o Chunk(n)
  OBVIOUS
<1>b. PICK e : e = Begun
  OBVIOUS
<1>c. PICK m : m = pos - Len(part) + 1
  OBVIOUS
<1>0. /\ sent \in Seq(Byte) /\ pos \in Nat /\ n \in Nat \ {0} /\ Len(sent) \in Nat
      /\ pos + n <= Len(sent) /\ mode = "frames" /\ pos + n \in 0..Len(sent)
      /\ part \in Seq(Byte) /\ Len(part) \in Nat /\ size \in 0..FrameMax
      /\ out \in Seq(Seq(Byte)) /\ line \in Seq(Byte)
      /\ SizeBytes \in Nat \ {0} /\ FrameMax \in Nat \ {0}
      /\ pos' = pos + n /\ sent' = sent /\ line' = line
  BY MaxAssumption DEF RInv, ReceiverTypeOK, RecvFrame
<1>d. written' \in 0..Len(sent')
  BY DEF RInv, ReceiverTypeOK, RecvFrame
<1>1. FrameUnderWay
  BY <1>0 DEF RInv
<1>2. /\ e \in 1..pos + 1 /\ e \in Nat
      /\ e = pos - Len(part) - (IF size = 0 THEN 0 ELSE SizeBytes) + 1
  BY <1>0, <1>1, <1>b, SMTT(30) DEF FrameUnderWay, Begun
<1>3. whole = SubSeq(sent, m, pos + n)
  <2>1. /\ m \in 1..Len(sent) + 1
        /\ pos \in m - 1..Len(sent) /\ pos + n \in pos..Len(sent)
    BY <1>0, <1>2, <1>c
  <2>2. sent \in Seq(Byte)
    BY <1>0
  <2>3. SubSeq(sent, m, pos) \o SubSeq(sent, pos + 1, pos + n) = SubSeq(sent, m, pos + n)
    BY <2>1, <2>2, ConcatAdjacentSubSeq
  <2>4. part = SubSeq(sent, m, pos)
    BY <1>1, <1>c DEF FrameUnderWay
  <2> QED BY <1>a, <2>3, <2>4 DEF Chunk
<1>4. whole \in Seq(Byte) /\ Len(whole) = Len(part) + n
  <2>1. m \in 1..Len(sent) + 1 /\ pos + n \in m - 1..Len(sent) /\ sent \in Seq(Byte)
    BY <1>0, <1>2, <1>c
  <2>2. pos + n - m + 1 = Len(part) + n
    BY <1>0, <1>c
  <2>4. /\ SubSeq(sent, m, pos + n) \in Seq(Byte)
        /\ Len(SubSeq(sent, m, pos + n)) = pos + n - m + 1
    <3>1. {pos, n, m} \subseteq Int
      BY <1>0, <1>c
    <3> QED BY <2>1, <3>1, Piece
  <2> QED BY <1>3, <2>2, <2>4
<1>5. \A k \in pos + n..Len(sent) :
         Lines(sent, k, 1) = out \o Frames(sent, k, e) /\ k \in Nat /\ e \in 1..k + 1
  <2> SUFFICES ASSUME NEW k \in pos + n..Len(sent)
               PROVE  Lines(sent, k, 1) = out \o Frames(sent, k, e) /\ k \in Nat /\ e \in 1..k + 1
    OBVIOUS
  <2>1. k \in pos..Len(sent) /\ k \in Nat /\ e \in 1..k + 1
    BY <1>0, <1>2
  <2>2. Lines(sent, k, 1) = out \o Frames(sent, k, Begun)
    BY <1>1, <2>1 DEF FrameUnderWay
  <2> QED BY <1>b, <2>1, <2>2
<1>6. Len(part) + n <= Wanted
  BY DEF RecvFrame
<1>7. <<>> = SubSeq(sent, pos + n - 0 + 1, pos + n) /\ Len(<<>>) = 0
  BY <1>0, SubSeqEmpty
<1>8. CASE /\ ~Enough(n) /\ part' = whole
           /\ UNCHANGED <<mode, size, out>>
  <2>0. part' = whole /\ mode' = mode /\ size' = size /\ out' = out
    BY <1>8
  <2>1. Begun' = e
    <3>1. Begun' = pos + n - Len(whole) - (IF size = 0 THEN 0 ELSE SizeBytes) + 1
      BY <1>0, <2>0 DEF Begun
    <3> QED BY <1>0, <1>2, <1>4, <3>1
  <2>2. pos + n - Len(whole) + 1 = m
    BY <1>0, <1>4, <1>c
  <2>3. Len(whole) < Wanted'
    <3>1. Wanted' = Wanted /\ Wanted \in Nat
      BY <1>0, <2>0 DEF Wanted
    <3>2. Len(part) + n # Wanted
      BY <1>8 DEF Enough
    <3> QED BY <1>0, <1>4, <1>6, <3>1, <3>2
  <2>4. size # 0 => size = LengthAt(sent, e)
    BY <1>1, <1>b DEF FrameUnderWay
  <2>5. e \in 1..pos + n + 1
    BY <1>0, <1>2
  <2>6. part' = SubSeq(sent, pos' - Len(part') + 1, pos')
    <3>1. pos' = pos + n /\ part' = whole
      BY <1>0, <2>0
    <3>2. pos' - Len(part') + 1 = m
      <4>1. {pos, n, Len(whole)} \subseteq Int
        BY <1>0, <1>4
      <4> QED BY <2>2, <3>1, <4>1
    <3> QED BY <1>3, <3>1, <3>2
  <2>7. FrameUnderWay'
    BY <1>0, <1>5, <1>8, <2>1, <2>3, <2>4, <2>5, <2>6 DEF FrameUnderWay
  <2>8. ReceiverTypeOK'
    BY <1>d, <1>0, <1>4, <1>8 DEF ReceiverTypeOK
  <2> QED BY <1>0, <1>8, <2>7, <2>8 DEF RInv
<1>9. ASSUME Enough(n), size = 0
      PROVE  whole = SubSeq(sent, e, e + SizeBytes - 1) /\ e + SizeBytes - 1 = pos + n
  <2>1. Len(part) + n = SizeBytes
    BY <1>9 DEF Enough, Wanted
  <2>2. e = m /\ e = pos - Len(part) + 1
    BY <1>0, <1>2, <1>9, <1>c
  <2>3. e + SizeBytes - 1 = pos + n
    <3>1. {pos, n, Len(part), SizeBytes} \subseteq Nat
      BY <1>0
    <3> QED BY <2>1, <2>2, <3>1
  <2> QED BY <1>3, <2>2, <2>3
<1>10. CASE /\ Enough(n) /\ size = 0 /\ payload_len(whole) \in 1..FrameMax
            /\ size' = payload_len(whole)
            /\ part' = <<>>
            /\ UNCHANGED <<mode, out>>
  <2>1. size' = LengthAt(sent, e) /\ size' \in 1..FrameMax
    BY <1>9, <1>10 DEF LengthAt
  <2>2. Begun' = e
    <3>1. Begun' = pos + n - Len(<<>>) - SizeBytes + 1
      BY <1>0, <1>10, <2>1 DEF Begun
    <3> QED BY <1>0, <1>2, <1>7, <1>9, <1>10, <3>1
  <2>3. Len(part') < Wanted'
    BY <1>0, <1>7, <1>10, <2>1 DEF Wanted
  <2>4. e \in 1..pos + n + 1
    BY <1>0, <1>2
  <2>5. part' = SubSeq(sent, pos' - Len(part') + 1, pos')
    BY <1>0, <1>7, <1>10
  <2>6. FrameUnderWay'
    BY <1>0, <1>5, <1>10, <2>1, <2>2, <2>3, <2>4, <2>5 DEF FrameUnderWay
  <2>7. ReceiverTypeOK'
    BY <1>d, <1>0, <1>10, <2>1 DEF ReceiverTypeOK
  <2> QED BY <1>0, <1>10, <2>6, <2>7 DEF RInv
<1>11. CASE /\ Enough(n) /\ size = 0 /\ payload_len(whole) \notin 1..FrameMax
            /\ mode' = "closed"
            /\ part' = <<>>
            /\ UNCHANGED <<size, out>>
  <2>1. ~FrameIn(sent, pos + n, e)
    BY <1>9, <1>11 DEF LengthAt, FrameIn
  <2>2. pos + n \in pos + n..Len(sent)
    BY <1>0
  <2>3. Frames(sent, pos + n, e) = <<>>
    BY <1>5, <2>1, <2>2, FramesUnfold
  <2>4. out \o <<>> = out
    BY <1>0, ConcatEmptySeq
  <2>5. DeliveredAsFramed'
    BY <1>0, <1>5, <1>11, <2>2, <2>3, <2>4 DEF DeliveredAsFramed
  <2>6. ReceiverTypeOK'
    BY <1>d, <1>0, <1>11 DEF ReceiverTypeOK
  <2> QED BY <1>11, <2>5, <2>6 DEF RInv
<1>12. CASE /\ Enough(n) /\ size # 0
            /\ out' = Append(out, whole)
            /\ size' = 0
            /\ part' = <<>>
            /\ UNCHANGED mode
  <2>1. size = LengthAt(sent, e)
    BY <1>1, <1>12, <1>b DEF FrameUnderWay
  <2>2. e + SizeBytes = m /\ FrameEnd(sent, e) = pos + n
    BY <1>0, <1>2, <1>12, <1>c, <2>1 DEF Enough, Wanted, FrameEnd
  <2>3. Payload(sent, e) = whole
    BY <1>3, <2>2 DEF Payload
  <2>4. ASSUME NEW k \in pos + n..Len(sent)
        PROVE  Lines(sent, k, 1) = Append(out, whole) \o Frames(sent, k, pos + n + 1)
    <3>1. FrameIn(sent, k, e)
      <4>1. size \in 1..FrameMax /\ LengthAt(sent, e) = size
        BY <1>0, <1>12, <2>1
      <4>2. k \in Int /\ pos + n <= k
        BY <1>0
      <4>3. FrameEnd(sent, e) <= k
        BY <2>2, <4>2
      <4>4. e + SizeBytes - 1 <= pos + n
        BY <1>0, <1>2, <4>1, <2>2 DEF FrameEnd
      <4>5. e + SizeBytes - 1 <= k
        BY <1>0, <1>2, <4>2, <4>4
      <4> QED BY <4>1, <4>3, <4>5 DEF FrameIn
    <3>2. Frames(sent, k, e) = <<whole>> \o Frames(sent, k, pos + n + 1)
      BY <1>5, <2>2, <2>3, <3>1, FramesUnfold
    <3>3. k \in 0..Len(sent) /\ pos + n + 1 \in 1..k + 1
      BY <1>0
    <3>4. Frames(sent, k, pos + n + 1) \in Seq(Seq(Byte))
      BY <1>0, <3>3, FramesType
    <3>5. Append(out, whole) \o Frames(sent, k, pos + n + 1)
            = out \o (<<whole>> \o Frames(sent, k, pos + n + 1))
      BY <1>0, <1>4, <3>4, AppendThenMore
    <3> QED BY <1>5, <3>2, <3>5
  <2>5. Begun' = pos + n + 1
    BY <1>0, <1>7, <1>12 DEF Begun
  <2>6. Len(part') < Wanted'
    BY <1>0, <1>7, <1>12 DEF Wanted
  <2>7. part' = SubSeq(sent, pos' - Len(part') + 1, pos')
    BY <1>0, <1>7, <1>12
  <2>8. FrameUnderWay'
    BY <1>0, <1>12, <2>4, <2>5, <2>6, <2>7 DEF FrameUnderWay
  <2>9. ReceiverTypeOK'
    <3>1. Append(out, whole) \in Seq(Seq(Byte))
      BY <1>0, <1>4, AppendProperties
    <3> QED BY <1>d, <1>0, <1>12, <3>1 DEF ReceiverTypeOK
  <2> QED BY <1>0, <1>12, <2>8, <2>9 DEF RInv
<1> QED BY <1>a, <1>8, <1>10, <1>11, <1>12 DEF RecvFrame

LEMMA RInvStutter ==
  ASSUME RInv, UNCHANGED <<sent, pos, line, size, part, out>>,
         \/ mode' \in {mode, "closed"} /\ written' = written
         \/ mode = "frames" /\ mode' = mode /\ written' = Len(sent)
  PROVE  RInv'
<1>1. DeliveredAsFramed'
  BY RInvDelivers DEF DeliveredAsFramed
<1>0. written' \in 0..Len(sent') /\ (mode' = "lines" => written' = written)
  BY DEF RInv, ReceiverTypeOK
<1>2. CASE mode' = "closed"
  BY <1>0, <1>1, <1>2 DEF RInv, ReceiverTypeOK
<1>3. CASE mode' = mode
  <2>0. mode = "lines" => Waits'
    BY <1>0, <1>3 DEF RInv, Waits, SwitchEnds
  <2>1. Input' = Input
    BY <1>3 DEF Input
  <2>2. FrameUnderWay => FrameUnderWay'
    BY DEF FrameUnderWay, Begun, Wanted
  <2> QED BY <1>0, <1>1, <1>3, <2>0, <2>1, <2>2 DEF RInv, ReceiverTypeOK
<1> QED BY <1>2, <1>3

\* However the stream is cut into chunks, a connection thread hands on the
\* messages of the stream, whole and in order: linebuf_feed keeps what recv_all
\* and the switch between the phases need, wherever a chunk ends.
THEOREM CutsDoNotMatter == ReceiverSpec => []DeliveredAsFramed
<1>1. RInv /\ [ReceiverNext]_rvars => RInv'
  <2> SUFFICES ASSUME RInv, [ReceiverNext]_rvars PROVE RInv'
    OBVIOUS
  <2>1. ASSUME NEW n \in 1..ChunkMax, RecvLines(n) PROVE RInv'
    BY <2>1, RInvLines
  <2>2. ASSUME NEW n \in 1..ChunkMax, RecvFrame(n) PROVE RInv'
    BY <2>2, RInvFrame
  <2>3. CASE Eof
    BY <2>3, RInvStutter DEF Eof
  <2>4. CASE UNCHANGED rvars
    BY <2>4, RInvStutter DEF rvars
  <2>5. CASE SendFrames
    BY <2>5, RInvStutter DEF SendFrames
  <2> QED BY <2>1, <2>2, <2>3, <2>4, <2>5 DEF ReceiverNext
<1> QED BY RInvInit, RInvDelivers, <1>1, PTL DEF ReceiverSpec

(***************************************************************************)
(* Base64                                                                  *)
(***************************************************************************)

LEMMA Powers ==
  2^0 = 1 /\ 2^1 = 2 /\ 2^2 = 4 /\ 2^3 = 8 /\ 2^4 = 16 /\ 2^5 = 32 /\ 2^6 = 64 /\ 2^7 = 128
OBVIOUS

LEMMA DTABType == ASSUME NEW char PROVE DTAB(char) \in -2..63
BY DEF DTAB

LEMMA LetterIsRead ==
  ASSUME NEW v \in 0..63
  PROVE  Letter(v) \in Byte /\ DTAB(Letter(v)) = v
<1>1. \E char \in 0..127 : DTAB(char) = v
  <2>1. CASE v \in 0..25
    <3>1. v + 65 \in 65..90 /\ v + 65 - 65 = v
      BY <2>1
    <3>2. DTAB(v + 65) = v
      BY <3>1 DEF DTAB
    <3> QED BY <3>1, <3>2
  <2>2. CASE v \in 26..51
    <3>1. v + 71 \in 97..122 /\ v + 71 - 71 = v
      BY <2>2
    <3>2. DTAB(v + 71) = v
      BY <3>1 DEF DTAB
    <3> QED BY <3>1, <3>2
  <2>3. CASE v \in 52..61
    <3>1. v - 4 \in 48..57 /\ v - 4 + 4 = v
      BY <2>3
    <3>2. DTAB(v - 4) = v
      BY <3>1 DEF DTAB
    <3> QED BY <3>1, <3>2
  <2>4. CASE v = 62
    <3>1. DTAB(43) = 62
      BY DEF DTAB
    <3> QED BY <2>4, <3>1
  <2>5. CASE v = 63
    <3>1. DTAB(47) = 63
      BY DEF DTAB
    <3> QED BY <2>5, <3>1
  <2> QED BY <2>1, <2>2, <2>3, <2>4, <2>5
<1>2. Letter(v) \in 0..127 /\ DTAB(Letter(v)) = v
  BY <1>1 DEF Letter
<1> QED BY <1>2 DEF Byte

\* The states b64_decode goes through.
IsDecoding(run, src) ==
    /\ run[0] = Unread
    /\ \A k \in 1..Len(src) : run[k] = ReadChar(run[k - 1], src[k])
    /\ b64_decode(src) = run[Len(src)].out

LEMMA DecodingRuns ==
  ASSUME NEW src, Len(src) \in Nat
  PROVE  \E run : IsDecoding(run, src)
<1> DEFINE Def(f, k) == IF k = 0 THEN Unread ELSE ReadChar(f[k - 1], src[k])
           S == {m \in Nat : \E f : f = [k \in 0..m |-> Def(f, k)]}
<1>1. 0 \in S
  <2> DEFINE f == [k \in 0..0 |-> Unread]
  <2>1. f = [k \in 0..0 |-> Def(f, k)]
    OBVIOUS
  <2>2. \E h : h = [k \in 0..0 |-> Def(h, k)]
    BY <2>1
  <2> QED BY <2>2
<1>2. ASSUME NEW m \in Nat, m \in S PROVE m + 1 \in S
  <2>1. PICK f : f = [k \in 0..m |-> Def(f, k)]
    BY <1>2
  <2> DEFINE g == [k \in 0..m + 1 |-> Def(f, k)]
  <2>2. \A k \in 0..m : f[k] = g[k]
    BY <2>1
  <2>3. ASSUME NEW k \in 0..m + 1 PROVE Def(g, k) = Def(f, k)
    <3>1. k # 0 => k - 1 \in 0..m
      OBVIOUS
    <3>2. k # 0 => g[k - 1] = f[k - 1]
      BY <2>2, <3>1, Zenon
    <3> HIDE DEF g
    <3> QED BY <3>2
  <2>4. g = [k \in 0..m + 1 |-> Def(g, k)]
    BY <2>3
  <2>5. \E h : h = [k \in 0..m + 1 |-> Def(h, k)]
    BY <2>4
  <2>6. m + 1 \in Nat
    OBVIOUS
  <2> HIDE DEF Def
  <2> QED BY <2>5, <2>6
<1>3. Len(src) \in S
  <2> HIDE DEF S
  <2> QED BY <1>1, <1>2, SetInduction
<1> DEFINE run == CHOOSE f : f = [k \in 0..Len(src) |-> Def(f, k)]
<1>4. run = [k \in 0..Len(src) |-> Def(run, k)]
  BY <1>3
<1>5. b64_decode(src) = run[Len(src)].out
  BY DEF b64_decode
<1> HIDE DEF run
<1>6. \A k \in 0..Len(src) : run[k] = Def(run, k)
  BY <1>4
<1>7. IsDecoding(run, src)
  BY <1>5, <1>6 DEF IsDecoding
<1> QED BY <1>7

DecodeState == [acc : Nat, bits : {0, 2, 4, 6}, out : Seq(Byte), ended : BOOLEAN]

LEMMA StateType ==
  ASSUME NEW acc \in Nat, NEW bits \in {0, 2, 4, 6}, NEW bytes \in Seq(Byte), NEW ended \in BOOLEAN
  PROVE  [acc |-> acc, bits |-> bits, out |-> bytes, ended |-> ended] \in DecodeState
BY DEF DecodeState

\* Six bits more, whichever number is waiting.
LEMMA Split ==
  ASSUME NEW v \in 0..63
  PROVE  /\ \A a \in 0..63 : /\ (a * 64 + v) \div 16 = 4 * a + v \div 16
                             /\ (a * 64 + v) % 16 = v % 16
         /\ \A a \in 0..15 : /\ (a * 64 + v) \div 4 = 16 * a + v \div 4
                             /\ (a * 64 + v) % 4 = v % 4
         /\ \A a \in 0..3 : (a * 64 + v) \div 1 = 64 * a + v /\ (a * 64 + v) % 1 = 0
OBVIOUS

LEMMA Parts ==
  ASSUME NEW v \in 0..63
  PROVE  /\ v \in Byte /\ v \div 16 \in 0..3 /\ v % 16 \in 0..15
         /\ v \div 4 \in 0..15 /\ v % 4 \in 0..3
         /\ \A a \in 0..63 : 4 * a + v \div 16 \in Byte
         /\ \A a \in 0..15 : 16 * a + v \div 4 \in Byte
         /\ \A a \in 0..3 : 64 * a + v \in Byte
<1>1. v \in Byte /\ v \div 16 \in 0..3 /\ v % 16 \in 0..15 /\ v \div 4 \in 0..15 /\ v % 4 \in 0..3
  BY DEF Byte
<1>2. ASSUME NEW a \in 0..63, NEW u \in 0..3 PROVE 4 * a + u \in Byte
  BY DEF Byte
<1>3. ASSUME NEW a \in 0..15, NEW u \in 0..15 PROVE 16 * a + u \in Byte
  BY DEF Byte
<1>4. ASSUME NEW a \in 0..3 PROVE 64 * a + v \in Byte
  BY DEF Byte
<1> QED BY <1>1, <1>2, <1>3, <1>4, Zenon

LEMMA CollectAt0 ==
  ASSUME NEW st \in DecodeState, st.bits = 0, st.acc = 0, NEW v \in 0..63
  PROVE  Collect6(st, v) = [acc |-> v, bits |-> 6, out |-> st.out, ended |-> st.ended]
<1>1. 0 * 64 + v = v /\ 0 + 6 = 6 /\ ~(6 >= 8)
  OBVIOUS
<1>2. Collect6(st, v) = [st EXCEPT !.acc = v, !.bits = 6]
  BY <1>1 DEF Collect6
<1> QED BY <1>2 DEF DecodeState

LEMMA CollectAt6 ==
  ASSUME NEW st \in DecodeState, st.bits = 6, st.acc \in 0..63, NEW v \in 0..63
  PROVE  Collect6(st, v) = [acc |-> v % 16, bits |-> 4, ended |-> st.ended,
                            out |-> Append(st.out, 4 * st.acc + v \div 16)]
<1>1. PICK a \in 0..63 : a = st.acc
  OBVIOUS
<1>2. 6 + 6 = 12 /\ 12 - 8 = 4 /\ 12 >= 8
  OBVIOUS
<1>3. Collect6(st, v) = [st EXCEPT !.acc = (a * 64 + v) % 2^4, !.bits = 4,
                                   !.out = Append(@, (a * 64 + v) \div 2^4)]
  BY <1>1, <1>2 DEF Collect6
<1>4. Collect6(st, v) = [st EXCEPT !.acc = v % 16, !.bits = 4,
                                   !.out = Append(@, 4 * a + v \div 16)]
  <2>1. (a * 64 + v) \div 16 = 4 * a + v \div 16 /\ (a * 64 + v) % 16 = v % 16
    BY Split
  <2>2. (a * 64 + v) \div 2^4 = 4 * a + v \div 16 /\ (a * 64 + v) % 2^4 = v % 16
    BY <2>1, Powers
  <2> QED BY <1>3, <2>2
<1> QED BY <1>1, <1>4 DEF DecodeState

LEMMA CollectAt4 ==
  ASSUME NEW st \in DecodeState, st.bits = 4, st.acc \in 0..15, NEW v \in 0..63
  PROVE  Collect6(st, v) = [acc |-> v % 4, bits |-> 2, ended |-> st.ended,
                            out |-> Append(st.out, 16 * st.acc + v \div 4)]
<1>1. PICK a \in 0..15 : a = st.acc
  OBVIOUS
<1>2. 4 + 6 = 10 /\ 10 - 8 = 2 /\ 10 >= 8
  OBVIOUS
<1>3. Collect6(st, v) = [st EXCEPT !.acc = (a * 64 + v) % 2^2, !.bits = 2,
                                   !.out = Append(@, (a * 64 + v) \div 2^2)]
  BY <1>1, <1>2 DEF Collect6
<1>4. Collect6(st, v) = [st EXCEPT !.acc = v % 4, !.bits = 2,
                                   !.out = Append(@, 16 * a + v \div 4)]
  <2>1. (a * 64 + v) \div 4 = 16 * a + v \div 4 /\ (a * 64 + v) % 4 = v % 4
    BY Split
  <2>2. (a * 64 + v) \div 2^2 = 16 * a + v \div 4 /\ (a * 64 + v) % 2^2 = v % 4
    BY <2>1, Powers
  <2> QED BY <1>3, <2>2
<1> QED BY <1>1, <1>4 DEF DecodeState

LEMMA CollectAt2 ==
  ASSUME NEW st \in DecodeState, st.bits = 2, st.acc \in 0..3, NEW v \in 0..63
  PROVE  Collect6(st, v) = [acc |-> 0, bits |-> 0, ended |-> st.ended,
                            out |-> Append(st.out, 64 * st.acc + v)]
<1>1. PICK a \in 0..3 : a = st.acc
  OBVIOUS
<1>2. 2 + 6 = 8 /\ 8 - 8 = 0 /\ 8 >= 8
  OBVIOUS
<1>3. Collect6(st, v) = [st EXCEPT !.acc = (a * 64 + v) % 2^0, !.bits = 0,
                                   !.out = Append(@, (a * 64 + v) \div 2^0)]
  BY <1>1, <1>2 DEF Collect6
<1>4. Collect6(st, v) = [st EXCEPT !.acc = 0, !.bits = 0, !.out = Append(@, 64 * a + v)]
  <2>1. (a * 64 + v) \div 1 = 64 * a + v /\ (a * 64 + v) % 1 = 0
    BY Split
  <2>2. (a * 64 + v) \div 2^0 = 64 * a + v /\ (a * 64 + v) % 2^0 = 0
    BY <2>1, Powers
  <2> QED BY <1>3, <2>2
<1> QED BY <1>1, <1>4 DEF DecodeState

\* As many waiting bits as acc has, and no more bytes than k characters give.
Fitting(st, k) ==
    /\ st \in DecodeState
    /\ st.bits = 0 => st.acc = 0
    /\ st.bits = 2 => st.acc \in 0..3
    /\ st.bits = 4 => st.acc \in 0..15
    /\ st.bits = 6 => st.acc \in 0..63
    /\ 8 * Len(st.out) + st.bits <= 6 * k

LEMMA CollectFits ==
  ASSUME NEW st, NEW k \in Nat, Fitting(st, k), NEW v \in 0..63
  PROVE  Fitting(Collect6(st, v), k + 1)
<1> SUFFICES ASSUME NEW new, new = Collect6(st, v) PROVE Fitting(new, k + 1)
  OBVIOUS
<1>0. /\ st \in DecodeState /\ st.acc \in Nat /\ st.out \in Seq(Byte)
      /\ Len(st.out) \in Nat /\ st.ended \in BOOLEAN /\ st.bits \in {0, 2, 4, 6}
      /\ 8 * Len(st.out) + st.bits <= 6 * k /\ 6 * (k + 1) = 6 * k + 6
  BY DEF Fitting, DecodeState
<1>1. \A b \in Byte : /\ Append(st.out, b) \in Seq(Byte)
                      /\ Len(Append(st.out, b)) = Len(st.out) + 1
  BY <1>0, AppendProperties
<1>2. CASE st.bits = 0
  <2>1. new = [acc |-> v, bits |-> 6, out |-> st.out, ended |-> st.ended]
    BY <1>0, <1>2, CollectAt0 DEF Fitting
  <2>2. new \in DecodeState
    <3>1. v \in Nat
      OBVIOUS
    <3>2. 6 \in {0, 2, 4, 6} /\ st.out \in Seq(Byte) /\ st.ended \in BOOLEAN
      BY <1>0 DEF DecodeState
    <3> QED BY <2>1, <3>1, <3>2, StateType
  <2>3. 8 * Len(st.out) + 6 <= 6 * (k + 1)
    BY <1>0, <1>2
  <2> QED BY <2>1, <2>2, <2>3 DEF Fitting
<1>3. CASE st.bits = 6
  <2> DEFINE b == 4 * st.acc + v \div 16
  <2>1. st.acc \in 0..63
    BY <1>3 DEF Fitting
  <2>2. b \in Byte /\ v % 16 \in 0..15
    BY <2>1, Parts
  <2>3. new = [acc |-> v % 16, bits |-> 4, ended |-> st.ended, out |-> Append(st.out, b)]
    BY <1>0, <1>3, <2>1, CollectAt6
  <2> HIDE DEF b
  <2>4. new \in DecodeState
    <3>1. v % 16 \in Nat /\ 4 \in {0, 2, 4, 6}
      BY <2>2
    <3>2. Append(st.out, b) \in Seq(Byte) /\ st.ended \in BOOLEAN
      BY <1>0, <1>1, <2>2 DEF DecodeState
    <3> QED BY <2>3, <3>1, <3>2, StateType
  <2>5. 8 * Len(Append(st.out, b)) + 4 <= 6 * (k + 1)
    BY <1>0, <1>1, <1>3, <2>2
  <2> QED BY <2>2, <2>3, <2>4, <2>5 DEF Fitting
<1>4. CASE st.bits = 4
  <2> DEFINE b == 16 * st.acc + v \div 4
  <2>1. st.acc \in 0..15
    BY <1>4 DEF Fitting
  <2>2. b \in Byte /\ v % 4 \in 0..3
    BY <2>1, Parts
  <2>3. new = [acc |-> v % 4, bits |-> 2, ended |-> st.ended, out |-> Append(st.out, b)]
    BY <1>0, <1>4, <2>1, CollectAt4
  <2> HIDE DEF b
  <2>4. new \in DecodeState
    <3>1. v % 4 \in Nat /\ 2 \in {0, 2, 4, 6}
      BY <2>2
    <3>2. Append(st.out, b) \in Seq(Byte) /\ st.ended \in BOOLEAN
      BY <1>0, <1>1, <2>2 DEF DecodeState
    <3> QED BY <2>3, <3>1, <3>2, StateType
  <2>5. 8 * Len(Append(st.out, b)) + 2 <= 6 * (k + 1)
    BY <1>0, <1>1, <1>4, <2>2
  <2> QED BY <2>2, <2>3, <2>4, <2>5 DEF Fitting
<1>5. CASE st.bits = 2
  <2> DEFINE b == 64 * st.acc + v
  <2>1. st.acc \in 0..3
    BY <1>5 DEF Fitting
  <2>2. b \in Byte
    BY <2>1, Parts
  <2>3. new = [acc |-> 0, bits |-> 0, ended |-> st.ended, out |-> Append(st.out, b)]
    BY <1>0, <1>5, <2>1, CollectAt2
  <2> HIDE DEF b
  <2>4. new \in DecodeState
    <3>1. 0 \in Nat /\ 0 \in {0, 2, 4, 6}
      BY <2>2
    <3>2. Append(st.out, b) \in Seq(Byte) /\ st.ended \in BOOLEAN
      BY <1>0, <1>1, <2>2 DEF DecodeState
    <3> QED BY <2>3, <3>1, <3>2, StateType
  <2>5. 8 * Len(Append(st.out, b)) + 0 <= 6 * (k + 1)
    BY <1>0, <1>1, <1>5, <2>2
  <2> QED BY <2>3, <2>4, <2>5 DEF Fitting
<1> QED BY <1>0, <1>2, <1>3, <1>4, <1>5

LEMMA ReadFits ==
  ASSUME NEW st, NEW k \in Nat, Fitting(st, k), NEW char
  PROVE  Fitting(ReadChar(st, char), k + 1)
<1>0. /\ st \in DecodeState /\ Len(st.out) \in Nat /\ st.bits \in Nat
      /\ 8 * Len(st.out) + st.bits <= 6 * k
  BY DEF Fitting, DecodeState
<1>1. 8 * Len(st.out) + st.bits <= 6 * (k + 1)
  BY <1>0
<1>2. CASE st.ended \/ DTAB(char) = -1
  <2>1. ReadChar(st, char) = st
    BY <1>2 DEF ReadChar
  <2> QED BY <1>1, <2>1 DEF Fitting
<1>3. CASE ~st.ended /\ DTAB(char) = -2
  <2>1. ReadChar(st, char) = [st EXCEPT !.ended = TRUE]
    BY <1>3 DEF ReadChar
  <2>2. ReadChar(st, char) \in DecodeState
    BY <1>0, <2>1 DEF DecodeState
  <2>3. /\ ReadChar(st, char).acc = st.acc /\ ReadChar(st, char).bits = st.bits
        /\ ReadChar(st, char).out = st.out
    BY <1>0, <2>1 DEF DecodeState
  <2> QED BY <1>1, <2>2, <2>3 DEF Fitting
<1>4. CASE ~st.ended /\ DTAB(char) # -1 /\ DTAB(char) # -2
  <2>1. DTAB(char) \in 0..63
    BY <1>4, DTABType
  <2>2. ReadChar(st, char) = Collect6(st, DTAB(char))
    BY <1>4 DEF ReadChar
  <2> QED BY <2>1, <2>2, CollectFits
<1> QED BY <1>2, <1>3, <1>4

\* Whatever characters a client puts into a data field, and whether or not it
\* is padded, b64_decode writes no more bytes than it allocated for them.
THEOREM DecodedFits ==
  ASSUME NEW src \in Seq(Byte)
  PROVE  b64_decode(src) \in Seq(Byte) /\ Len(b64_decode(src)) <= max_out(src)
<1>0. Len(src) \in Nat
  OBVIOUS
<1>1. PICK run : IsDecoding(run, src)
  BY <1>0, DecodingRuns
<1> DEFINE S == {k \in Nat : k <= Len(src) => Fitting(run[k], k)}
<1>2. 0 \in S
  <2>1. run[0] = Unread
    BY <1>1 DEF IsDecoding
  <2>2. Unread \in DecodeState
    BY DEF Unread, DecodeState
  <2>3. Fitting(run[0], 0)
    BY <2>1, <2>2, Len(<<>>) = 0 DEF Fitting, Unread
  <2> QED BY <2>3
<1>3. ASSUME NEW k \in Nat, k \in S PROVE k + 1 \in S
  <2> SUFFICES ASSUME k + 1 <= Len(src) PROVE Fitting(run[k + 1], k + 1)
    OBVIOUS
  <2>1. run[k + 1] = ReadChar(run[k], src[k + 1])
    <3>1. k + 1 \in 1..Len(src) /\ k + 1 - 1 = k
      BY <1>0
    <3> QED BY <1>1, <3>1 DEF IsDecoding
  <2>2. Fitting(run[k], k)
    BY <1>0, <1>3
  <2> QED BY <2>1, <2>2, ReadFits
<1>4. Len(src) \in S
  <2> HIDE DEF S
  <2> QED BY <1>0, <1>2, <1>3, SetInduction
<1>5. Fitting(run[Len(src)], Len(src)) /\ b64_decode(src) = run[Len(src)].out
  BY <1>1, <1>4 DEF IsDecoding
<1>6. b64_decode(src) \in Seq(Byte) /\ 8 * Len(b64_decode(src)) <= 6 * Len(src)
  <2>1. run[Len(src)].out \in Seq(Byte) /\ run[Len(src)].bits \in Nat
    BY <1>5 DEF Fitting, DecodeState
  <2> QED BY <1>0, <1>5, <2>1 DEF Fitting
<1>7. Len(b64_decode(src)) <= max_out(src)
  <2>1. PICK n \in Nat, k \in Nat : n = Len(b64_decode(src)) /\ k = Len(src)
    BY <1>0, <1>6
  <2>2. 8 * n <= 6 * k
    BY <1>6, <2>1
  <2>3. n <= (k \div 4) * 3 + 4
    BY <2>2
  <2> QED BY <2>1, <2>3 DEF max_out
<1> QED BY <1>6, <1>7

\* The bytes to be sent, and nulls behind them.
At(data, i) == IF i \in 1..Len(data) THEN data[i] ELSE 0

Upto(data, n) == [i \in 1..n |-> At(data, i)]

LEMMA AtIsByte == ASSUME NEW data \in Seq(Byte), NEW i PROVE At(data, i) \in Byte
<1>1. i \in 1..Len(data) => data[i] \in Byte
  OBVIOUS
<1> QED BY <1>1 DEF At, Byte

LEMMA UptoFacts ==
  ASSUME NEW data \in Seq(Byte), NEW n \in Nat
  PROVE  /\ Upto(data, n) \in Seq(Byte)
         /\ Append(Upto(data, n), At(data, n + 1)) = Upto(data, n + 1)
<1>1. \A k \in Nat : Upto(data, k) \in Seq(Byte) /\ Len(Upto(data, k)) = k
  BY AtIsByte DEF Upto
<1>2. At(data, n + 1) \in Byte /\ n + 1 \in Nat
  BY AtIsByte
<1> DEFINE more == Append(Upto(data, n), At(data, n + 1))
<1>3. /\ more \in Seq(Byte) /\ Len(more) = n + 1
      /\ \A i \in 1..n : more[i] = Upto(data, n)[i]
      /\ more[n + 1] = At(data, n + 1)
  BY <1>1, <1>2, AppendProperties
<1>4. \A i \in 1..n + 1 : Upto(data, n + 1)[i] = At(data, i)
  BY DEF Upto
<1>5. \A i \in 1..n : Upto(data, n)[i] = At(data, i)
  BY DEF Upto
<1>6. \A i \in 1..n + 1 : i \in 1..n \/ i = n + 1
  OBVIOUS
<1> HIDE DEF more
<1>7. \A i \in 1..n + 1 : more[i] = Upto(data, n + 1)[i]
  BY <1>3, <1>4, <1>5, <1>6
<1>8. more = Upto(data, n + 1)
  BY <1>1, <1>2, <1>3, <1>7, SeqEqual
<1> QED BY <1>1, <1>8 DEF more

LEMMA UptoAll ==
  ASSUME NEW data \in Seq(Byte)
  PROVE  Upto(data, Len(data)) = data
<1>1. Upto(data, Len(data)) \in Seq(Byte) /\ Len(Upto(data, Len(data))) = Len(data)
  BY AtIsByte DEF Upto
<1>2. \A i \in 1..Len(data) : Upto(data, Len(data))[i] = data[i]
  BY DEF Upto, At
<1> QED BY <1>1, <1>2, SeqEqual

\* Byte q + 1 is d.
NextByte(data, q, q1, d) ==
    q \in Nat /\ q1 \in Nat /\ q1 = q + 1 /\ d \in 0..255 /\ d = At(data, q + 1)

\* The eight bits of byte q + 1, if that is d.
BitsOf(data, q, d) ==
    /\ Bit(data, 8 * q) = (d \div 128) % 2
    /\ Bit(data, 8 * q + 1) = (d \div 64) % 2
    /\ Bit(data, 8 * q + 2) = (d \div 32) % 2
    /\ Bit(data, 8 * q + 3) = (d \div 16) % 2
    /\ Bit(data, 8 * q + 4) = (d \div 8) % 2
    /\ Bit(data, 8 * q + 5) = (d \div 4) % 2
    /\ Bit(data, 8 * q + 6) = (d \div 2) % 2
    /\ Bit(data, 8 * q + 7) = d % 2

LEMMA BitAt ==
  ASSUME NEW data \in Seq(Byte), NEW q \in Nat, NEW d \in 0..255, d = At(data, q + 1)
  PROVE  BitsOf(data, q, d)
<1>0. PICK n \in Nat : n = Len(data)
  OBVIOUS
<1>1. ASSUME NEW b \in 0..7
      PROVE  Bit(data, 8 * q + b) = IF q + 1 \in 1..n THEN (d \div 2^(7 - b)) % 2 ELSE 0
  <2>1. (8 * q + b) \div 8 = q /\ (8 * q + b) % 8 = b
    OBVIOUS
  <2>2. 8 * q + b >= 8 * n <=> ~(q + 1 \in 1..n)
    OBVIOUS
  <2> QED BY <1>0, <2>1, <2>2 DEF Bit, At
<1>2. /\ 7 - 0 = 7 /\ 7 - 1 = 6 /\ 7 - 2 = 5 /\ 7 - 3 = 4 /\ 7 - 4 = 3 /\ 7 - 5 = 2
      /\ 7 - 6 = 1 /\ 7 - 7 = 0 /\ 8 * q + 0 = 8 * q
  OBVIOUS
<1>3. CASE q + 1 \in 1..n
  <2>1. ASSUME NEW b \in 0..7 PROVE Bit(data, 8 * q + b) = (d \div 2^(7 - b)) % 2
    BY <1>1, <1>3
  <2>2. /\ Bit(data, 8 * q + 0) = (d \div 2^(7 - 0)) % 2
        /\ Bit(data, 8 * q + 1) = (d \div 2^(7 - 1)) % 2
        /\ Bit(data, 8 * q + 2) = (d \div 2^(7 - 2)) % 2
        /\ Bit(data, 8 * q + 3) = (d \div 2^(7 - 3)) % 2
    BY <2>1
  <2>3. /\ Bit(data, 8 * q + 4) = (d \div 2^(7 - 4)) % 2
        /\ Bit(data, 8 * q + 5) = (d \div 2^(7 - 5)) % 2
        /\ Bit(data, 8 * q + 6) = (d \div 2^(7 - 6)) % 2
        /\ Bit(data, 8 * q + 7) = (d \div 2^(7 - 7)) % 2
    BY <2>1
  <2>4. d \div 1 = d
    OBVIOUS
  <2> QED BY <1>2, <2>2, <2>3, <2>4, Powers DEF BitsOf
<1>4. CASE ~(q + 1 \in 1..n)
  <2>1. d = 0
    BY <1>0, <1>4 DEF At
  <2>2. ASSUME NEW b \in 0..7 PROVE Bit(data, 8 * q + b) = 0
    BY <1>1, <1>4
  <2>3. /\ Bit(data, 8 * q) = 0 /\ Bit(data, 8 * q + 1) = 0 /\ Bit(data, 8 * q + 2) = 0
        /\ Bit(data, 8 * q + 3) = 0 /\ Bit(data, 8 * q + 4) = 0 /\ Bit(data, 8 * q + 5) = 0
        /\ Bit(data, 8 * q + 6) = 0 /\ Bit(data, 8 * q + 7) = 0
    BY <1>2, <2>2
  <2> QED BY <2>1, <2>3 DEF BitsOf
<1> QED BY <1>3, <1>4

LEMMA TopBits ==
  ASSUME NEW d \in 0..255
  PROVE  /\ 32 * ((d \div 128) % 2) + 16 * ((d \div 64) % 2) + 8 * ((d \div 32) % 2)
             + 4 * ((d \div 16) % 2) + 2 * ((d \div 8) % 2) + ((d \div 4) % 2) = d \div 4
         /\ 32 * ((d \div 2) % 2) + 16 * (d % 2) = 16 * (d % 4)
         /\ 8 * ((d \div 128) % 2) + 4 * ((d \div 64) % 2) + 2 * ((d \div 32) % 2)
             + ((d \div 16) % 2) = d \div 16
         /\ 32 * ((d \div 8) % 2) + 16 * ((d \div 4) % 2) + 8 * ((d \div 2) % 2)
             + 4 * (d % 2) = 4 * (d % 16)
         /\ 2 * ((d \div 128) % 2) + ((d \div 64) % 2) = d \div 64
         /\ 32 * ((d \div 32) % 2) + 16 * ((d \div 16) % 2) + 8 * ((d \div 8) % 2)
             + 4 * ((d \div 4) % 2) + 2 * ((d \div 2) % 2) + (d % 2) = d % 64
OBVIOUS

LEMMA BitsType ==
  ASSUME NEW d \in 0..255
  PROVE  /\ d % 2 \in Int /\ (d \div 2) % 2 \in Int /\ (d \div 4) % 2 \in Int
         /\ (d \div 8) % 2 \in Int /\ (d \div 16) % 2 \in Int /\ (d \div 32) % 2 \in Int
         /\ (d \div 64) % 2 \in Int /\ (d \div 128) % 2 \in Int
OBVIOUS

SecondBits(d, f) ==
    32 * ((d \div 2) % 2) + 16 * (d % 2) + 8 * ((f \div 128) % 2)
    + 4 * ((f \div 64) % 2) + 2 * ((f \div 32) % 2) + ((f \div 16) % 2)

ThirdBits(d, f) ==
    32 * ((d \div 8) % 2) + 16 * ((d \div 4) % 2) + 8 * ((d \div 2) % 2)
    + 4 * (d % 2) + 2 * ((f \div 128) % 2) + ((f \div 64) % 2)

LEMMA SecondDigit ==
  ASSUME NEW d \in 0..255, NEW f \in 0..255
  PROVE  SecondBits(d, f) = 16 * (d % 4) + (f \div 16)
<1>a0. PICK b0 \in Int : b0 = (d \div 2) % 2
  BY BitsType
<1>a1. PICK b1 \in Int : b1 = d % 2
  BY BitsType
<1>a2. PICK b2 \in Int : b2 = (f \div 128) % 2
  BY BitsType
<1>a3. PICK b3 \in Int : b3 = (f \div 64) % 2
  BY BitsType
<1>a4. PICK b4 \in Int : b4 = (f \div 32) % 2
  BY BitsType
<1>a5. PICK b5 \in Int : b5 = (f \div 16) % 2
  BY BitsType
<1>1. 32 * b0 + 16 * b1 = 16 * (d % 4)
  BY <1>a0, <1>a1, TopBits
<1>2. 8 * b2 + 4 * b3 + 2 * b4 + b5 = (f \div 16)
  BY <1>a2, <1>a3, <1>a4, <1>a5, TopBits
<1>3. 32 * b0 + 16 * b1 + 8 * b2 + 4 * b3 + 2 * b4 + b5
        = (32 * b0 + 16 * b1) + (8 * b2 + 4 * b3 + 2 * b4 + b5)
  OBVIOUS
<1> QED BY <1>a0, <1>a1, <1>a2, <1>a3, <1>a4, <1>a5, <1>1, <1>2, <1>3, ZenonT(30) DEF SecondBits

LEMMA ThirdDigit ==
  ASSUME NEW d \in 0..255, NEW f \in 0..255
  PROVE  ThirdBits(d, f) = 4 * (d % 16) + (f \div 64)
<1>a0. PICK b0 \in Int : b0 = (d \div 8) % 2
  BY BitsType
<1>a1. PICK b1 \in Int : b1 = (d \div 4) % 2
  BY BitsType
<1>a2. PICK b2 \in Int : b2 = (d \div 2) % 2
  BY BitsType
<1>a3. PICK b3 \in Int : b3 = d % 2
  BY BitsType
<1>a4. PICK b4 \in Int : b4 = (f \div 128) % 2
  BY BitsType
<1>a5. PICK b5 \in Int : b5 = (f \div 64) % 2
  BY BitsType
<1>1. 32 * b0 + 16 * b1 + 8 * b2 + 4 * b3 = 4 * (d % 16)
  BY <1>a0, <1>a1, <1>a2, <1>a3, TopBits
<1>2. 2 * b4 + b5 = (f \div 64)
  BY <1>a4, <1>a5, TopBits
<1>3. 32 * b0 + 16 * b1 + 8 * b2 + 4 * b3 + 2 * b4 + b5
        = (32 * b0 + 16 * b1 + 8 * b2 + 4 * b3) + (2 * b4 + b5)
  OBVIOUS
<1> QED BY <1>a0, <1>a1, <1>a2, <1>a3, <1>a4, <1>a5, <1>1, <1>2, <1>3, Zenon DEF ThirdBits

\* Four characters carry three bytes, d, d1 and d2.
DigitsOf(data, j, d, d1, d2) ==
    /\ Digit(data, 4 * j) = d \div 4
    /\ Digit(data, 4 * j + 1) = 16 * (d % 4) + (d1 \div 16)
    /\ Digit(data, 4 * j + 2) = 4 * (d1 % 16) + (d2 \div 64)
    /\ Digit(data, 4 * j + 3) = d2 % 64

LEMMA DigitAt ==
  ASSUME NEW data \in Seq(Byte), NEW j \in Nat, NEW q, q = 3 * j, NEW q1, NEW q2, NEW q3,
         NEW d, NEW d1, NEW d2,
         NextByte(data, q, q1, d), NextByte(data, q1, q2, d1), NextByte(data, q2, q3, d2)
  PROVE  DigitsOf(data, j, d, d1, d2)
<1>0. /\ q \in Nat /\ q1 \in Nat /\ q2 \in Nat /\ q1 = q + 1 /\ q2 = q + 2
      /\ d \in 0..255 /\ d1 \in 0..255 /\ d2 \in 0..255
      /\ d = At(data, q + 1) /\ d1 = At(data, q1 + 1) /\ d2 = At(data, q2 + 1)
  BY DEF NextByte
<1>a. d \in 0..255 /\ d1 \in 0..255 /\ d2 \in 0..255
  BY <1>0
<1>1. BitsOf(data, q, d) /\ BitsOf(data, q1, d1) /\ BitsOf(data, q2, d2)
  <2>1. BitsOf(data, q, d)
    BY <1>0, BitAt
  <2>2. BitsOf(data, q1, d1)
    BY <1>0, BitAt
  <2>3. BitsOf(data, q2, d2)
    BY <1>0, BitAt
  <2> QED BY <2>1, <2>2, <2>3
<1>2. Digit(data, 4 * j) = d \div 4
  <2>1. Digit(data, 4 * j) = 32 * Bit(data, 8 * q) + 16 * Bit(data, 8 * q + 1)
          + 8 * Bit(data, 8 * q + 2) + 4 * Bit(data, 8 * q + 3)
          + 2 * Bit(data, 8 * q + 4) + Bit(data, 8 * q + 5)
    BY <1>0 DEF Digit
  <2>2. Digit(data, 4 * j) =
          32 * ((d \div 128) % 2) + 16 * ((d \div 64) % 2) + 8 * ((d \div 32) % 2)
          + 4 * ((d \div 16) % 2) + 2 * ((d \div 8) % 2) + ((d \div 4) % 2)
    BY <1>1, <2>1 DEF BitsOf
  <2>3. 32 * ((d \div 128) % 2) + 16 * ((d \div 64) % 2) + 8 * ((d \div 32) % 2)
          + 4 * ((d \div 16) % 2) + 2 * ((d \div 8) % 2) + ((d \div 4) % 2) = d \div 4
    BY <1>a, TopBits, Zenon
  <2> QED BY <2>2, <2>3, Zenon
<1>3. Digit(data, 4 * j + 1) = 16 * (d % 4) + (d1 \div 16)
  <2>1. Digit(data, 4 * j + 1) = 32 * Bit(data, 8 * q + 6) + 16 * Bit(data, 8 * q + 7)
          + 8 * Bit(data, 8 * q1) + 4 * Bit(data, 8 * q1 + 1)
          + 2 * Bit(data, 8 * q1 + 2) + Bit(data, 8 * q1 + 3)
    BY <1>0 DEF Digit
  <2>2. Digit(data, 4 * j + 1) = SecondBits(d, d1)
    BY <1>1, <2>1 DEF BitsOf, SecondBits
  <2>3. SecondBits(d, d1) = 16 * (d % 4) + (d1 \div 16)
    BY <1>a, SecondDigit, Zenon
  <2> QED BY <2>2, <2>3, Zenon
<1>4. Digit(data, 4 * j + 2) = 4 * (d1 % 16) + (d2 \div 64)
  <2>1. Digit(data, 4 * j + 2) = 32 * Bit(data, 8 * q1 + 4) + 16 * Bit(data, 8 * q1 + 5)
          + 8 * Bit(data, 8 * q1 + 6) + 4 * Bit(data, 8 * q1 + 7)
          + 2 * Bit(data, 8 * q2) + Bit(data, 8 * q2 + 1)
    BY <1>0 DEF Digit
  <2>2. Digit(data, 4 * j + 2) = ThirdBits(d1, d2)
    BY <1>1, <2>1 DEF BitsOf, ThirdBits
  <2>3. ThirdBits(d1, d2) = 4 * (d1 % 16) + (d2 \div 64)
    BY <1>a, ThirdDigit, Zenon
  <2> QED BY <2>2, <2>3, Zenon
<1>5. Digit(data, 4 * j + 3) = d2 % 64
  <2>1. Digit(data, 4 * j + 3) = 32 * Bit(data, 8 * q2 + 2) + 16 * Bit(data, 8 * q2 + 3)
          + 8 * Bit(data, 8 * q2 + 4) + 4 * Bit(data, 8 * q2 + 5)
          + 2 * Bit(data, 8 * q2 + 6) + Bit(data, 8 * q2 + 7)
    BY <1>0 DEF Digit
  <2>2. Digit(data, 4 * j + 3) =
          32 * ((d2 \div 32) % 2) + 16 * ((d2 \div 16) % 2) + 8 * ((d2 \div 8) % 2)
          + 4 * ((d2 \div 4) % 2) + 2 * ((d2 \div 2) % 2) + (d2 % 2)
    BY <1>1, <2>1 DEF BitsOf
  <2>3. 32 * ((d2 \div 32) % 2) + 16 * ((d2 \div 16) % 2) + 8 * ((d2 \div 8) % 2)
          + 4 * ((d2 \div 4) % 2) + 2 * ((d2 \div 2) % 2) + (d2 % 2) = d2 % 64
    BY <1>a, TopBits, Zenon
  <2> QED BY <2>2, <2>3, Zenon
<1> QED BY <1>2, <1>3, <1>4, <1>5 DEF DigitsOf

Assembled(d, f) ==
    /\ d \div 4 \in 0..63 /\ d \div 16 \in 0..15 /\ d \div 64 \in 0..3 /\ d % 64 \in 0..63
    /\ 16 * (d % 4) + (f \div 16) \in 0..63
    /\ (16 * (d % 4) + (f \div 16)) % 16 = f \div 16
    /\ 4 * (d \div 4) + (16 * (d % 4) + (f \div 16)) \div 16 = d
    /\ 4 * (d % 16) + (f \div 64) \in 0..63
    /\ (4 * (d % 16) + (f \div 64)) % 4 = f \div 64
    /\ 16 * (d \div 16) + (4 * (d % 16) + (f \div 64)) \div 4 = d
    /\ 64 * (d \div 64) + (d % 64) = d

LEMMA Reassembled ==
  ASSUME NEW d \in 0..255, NEW f \in 0..255
  PROVE  Assembled(d, f)
BY DEF Assembled

\* The decoder has written n bytes, and keeps so many bits of the next.
Reading(data, n, bits, acc) ==
    [acc |-> acc, bits |-> bits, out |-> Upto(data, n), ended |-> FALSE]

LEMMA ReadLetter ==
  ASSUME NEW st, st.ended = FALSE, NEW v \in 0..63
  PROVE  ReadChar(st, Letter(v)) = Collect6(st, v)
<1>1. DTAB(Letter(v)) = v
  BY LetterIsRead
<1>2. v # -1 /\ v # -2
  OBVIOUS
<1> QED BY <1>1, <1>2 DEF ReadChar

LEMMA ReadingState ==
  ASSUME NEW data \in Seq(Byte), NEW n \in Nat, NEW bits \in {0, 2, 4, 6}, NEW acc \in Nat
  PROVE  Reading(data, n, bits, acc) \in DecodeState
<1>1. Upto(data, n) \in Seq(Byte)
  BY UptoFacts
<1> QED BY <1>1 DEF Reading, DecodeState

LEMMA LetterAt0 ==
  ASSUME NEW data \in Seq(Byte), NEW q \in Nat, NEW v \in 0..63
  PROVE  ReadChar(Reading(data, q, 0, 0), Letter(v)) = Reading(data, q, 6, v)
<1>1. PICK st : st = Reading(data, q, 0, 0)
  OBVIOUS
<1>2. /\ st.acc = 0 /\ st.bits = 0 /\ st.ended = FALSE /\ st.out = Upto(data, q)
      /\ st \in DecodeState
  <2>1. 0 \in Nat /\ 0 \in {0, 2, 4, 6}
    OBVIOUS
  <2>2. Reading(data, q, 0, 0) \in DecodeState
    BY <2>1, ReadingState
  <2> QED BY <1>1, <2>2 DEF Reading
<1>3. ReadChar(st, Letter(v)) = Collect6(st, v)
  BY <1>2, ReadLetter
<1>4. Collect6(st, v) = [acc |-> v, bits |-> 6, out |-> st.out, ended |-> st.ended]
  BY <1>2, CollectAt0
<1> QED BY <1>1, <1>2, <1>3, <1>4 DEF Reading

\* What waits, the six bits of a letter, the byte they complete and what stays.
RestOf6(a, v, r, d) ==
    a \in 0..63 /\ v \in 0..63 /\ r \in 0..15 /\ v % 16 = r /\ 4 * a + v \div 16 = d

RestOf4(a, v, r, d) ==
    a \in 0..15 /\ v \in 0..63 /\ r \in 0..3 /\ v % 4 = r /\ 16 * a + v \div 4 = d

RestOf2(a, v, d) == a \in 0..3 /\ v \in 0..63 /\ 64 * a + v = d

LEMMA LetterAt6 ==
  ASSUME NEW data \in Seq(Byte), NEW q, NEW q1, NEW d, NEW a, NEW v, NEW r,
         NextByte(data, q, q1, d), RestOf6(a, v, r, d)
  PROVE  ReadChar(Reading(data, q, 6, a), Letter(v)) = Reading(data, q1, 4, r)
<1>0. /\ q \in Nat /\ q1 = q + 1 /\ d \in 0..255 /\ d = At(data, q + 1)
      /\ a \in 0..63 /\ v \in 0..63 /\ r \in 0..15 /\ v % 16 = r /\ 4 * a + v \div 16 = d
  BY DEF NextByte, RestOf6
<1>1. PICK st : st = Reading(data, q, 6, a)
  OBVIOUS
<1>2. /\ st.acc = a /\ st.bits = 6 /\ st.ended = FALSE /\ st.out = Upto(data, q)
      /\ st \in DecodeState
  <2>1. a \in Nat /\ 6 \in {0, 2, 4, 6}
    BY <1>0
  <2>2. Reading(data, q, 6, a) \in DecodeState
    BY <1>0, <2>1, ReadingState
  <2> QED BY <1>1, <2>2 DEF Reading
<1>3. ReadChar(st, Letter(v)) = Collect6(st, v)
  BY <1>0, <1>2, ReadLetter
<1>4. Collect6(st, v) = [acc |-> v % 16, bits |-> 4, ended |-> st.ended,
                         out |-> Append(st.out, 4 * st.acc + v \div 16)]
  BY <1>0, <1>2, CollectAt6
<1>5. Append(Upto(data, q), d) = Upto(data, q + 1)
  BY <1>0, UptoFacts
<1> QED BY <1>0, <1>1, <1>2, <1>3, <1>4, <1>5 DEF Reading

LEMMA LetterAt4 ==
  ASSUME NEW data \in Seq(Byte), NEW q, NEW q1, NEW d, NEW a, NEW v, NEW r,
         NextByte(data, q, q1, d), RestOf4(a, v, r, d)
  PROVE  ReadChar(Reading(data, q, 4, a), Letter(v)) = Reading(data, q1, 2, r)
<1>0. /\ q \in Nat /\ q1 = q + 1 /\ d \in 0..255 /\ d = At(data, q + 1)
      /\ a \in 0..15 /\ v \in 0..63 /\ r \in 0..3 /\ v % 4 = r /\ 16 * a + v \div 4 = d
  BY DEF NextByte, RestOf4
<1>1. PICK st : st = Reading(data, q, 4, a)
  OBVIOUS
<1>2. /\ st.acc = a /\ st.bits = 4 /\ st.ended = FALSE /\ st.out = Upto(data, q)
      /\ st \in DecodeState
  <2>1. a \in Nat /\ 4 \in {0, 2, 4, 6}
    BY <1>0
  <2>2. Reading(data, q, 4, a) \in DecodeState
    BY <1>0, <2>1, ReadingState
  <2> QED BY <1>1, <2>2 DEF Reading
<1>3. ReadChar(st, Letter(v)) = Collect6(st, v)
  BY <1>0, <1>2, ReadLetter
<1>4. Collect6(st, v) = [acc |-> v % 4, bits |-> 2, ended |-> st.ended,
                         out |-> Append(st.out, 16 * st.acc + v \div 4)]
  BY <1>0, <1>2, CollectAt4
<1>5. Append(Upto(data, q), d) = Upto(data, q + 1)
  BY <1>0, UptoFacts
<1> QED BY <1>0, <1>1, <1>2, <1>3, <1>4, <1>5 DEF Reading

LEMMA LetterAt2 ==
  ASSUME NEW data \in Seq(Byte), NEW q, NEW q1, NEW d, NEW a, NEW v,
         NextByte(data, q, q1, d), RestOf2(a, v, d)
  PROVE  ReadChar(Reading(data, q, 2, a), Letter(v)) = Reading(data, q1, 0, 0)
<1>0. /\ q \in Nat /\ q1 = q + 1 /\ d \in 0..255 /\ d = At(data, q + 1)
      /\ a \in 0..3 /\ v \in 0..63 /\ 64 * a + v = d
  BY DEF NextByte, RestOf2
<1>1. PICK st : st = Reading(data, q, 2, a)
  OBVIOUS
<1>2. /\ st.acc = a /\ st.bits = 2 /\ st.ended = FALSE /\ st.out = Upto(data, q)
      /\ st \in DecodeState
  <2>1. a \in Nat /\ 2 \in {0, 2, 4, 6}
    BY <1>0
  <2>2. Reading(data, q, 2, a) \in DecodeState
    BY <1>0, <2>1, ReadingState
  <2> QED BY <1>1, <2>2 DEF Reading
<1>3. ReadChar(st, Letter(v)) = Collect6(st, v)
  BY <1>0, <1>2, ReadLetter
<1>4. Collect6(st, v) = [acc |-> 0, bits |-> 0, ended |-> st.ended,
                         out |-> Append(st.out, 64 * st.acc + v)]
  BY <1>0, <1>2, CollectAt2
<1>5. Append(Upto(data, q), d) = Upto(data, q + 1)
  BY <1>0, UptoFacts
<1> QED BY <1>0, <1>1, <1>2, <1>3, <1>4, <1>5 DEF Reading

\* One character more of the letters, from the state before to the state after.
Turn(run, data, k, k1) == run[k1] = ReadChar(run[k], Letter(Digit(data, k)))

Turns(run, data, L) == \A k, k1 \in Nat : k < L /\ k1 = k + 1 => Turn(run, data, k, k1)

\* Four letters are at p, p1, p2 and p3, and their bytes behind q, q1 and q2.
Places(j, p, p1, p2, p3, p4, q, q1, q2, q3) ==
    /\ p \in Nat /\ p1 \in Nat /\ p2 \in Nat /\ p3 \in Nat /\ p4 \in Nat
    /\ p = 4 * j /\ p1 = p + 1 /\ p2 = p + 2 /\ p3 = p + 3 /\ p4 = p + 4
    /\ q \in Nat /\ q1 \in Nat /\ q2 \in Nat /\ q3 \in Nat
    /\ q = 3 * j /\ q1 = q + 1 /\ q2 = q + 2 /\ q3 = q + 3

LEMMA PlacesExist ==
  ASSUME NEW j \in Nat
  PROVE  \E p, p1, p2, p3, p4, q, q1, q2, q3 : Places(j, p, p1, p2, p3, p4, q, q1, q2, q3)
<1>1. PICK p, q : p \in Nat /\ p = 4 * j /\ q \in Nat /\ q = 3 * j
  OBVIOUS
<1>2. PICK p1, p2, p3, p4 : /\ p1 \in Nat /\ p2 \in Nat /\ p3 \in Nat /\ p4 \in Nat
                            /\ p1 = p + 1 /\ p2 = p + 2 /\ p3 = p + 3 /\ p4 = p + 4
  BY <1>1
<1>3. PICK q1, q2, q3 : /\ q1 \in Nat /\ q2 \in Nat /\ q3 \in Nat
                        /\ q1 = q + 1 /\ q2 = q + 2 /\ q3 = q + 3
  BY <1>1
<1>4. Places(j, p, p1, p2, p3, p4, q, q1, q2, q3)
  BY <1>1, <1>2, <1>3 DEF Places
<1> QED BY <1>4, Zenon

\* Four letters give three bytes; a text may end within the four.
LEMMA FourLetters ==
  ASSUME NEW data \in Seq(Byte), NEW run, NEW j \in Nat, NEW L \in Nat, Turns(run, data, L),
         NEW p, NEW p1, NEW p2, NEW p3, NEW p4, NEW q, NEW q1, NEW q2, NEW q3,
         Places(j, p, p1, p2, p3, p4, q, q1, q2, q3), run[p] = Reading(data, q, 0, 0)
  PROVE  /\ p2 <= L => \E acc : run[p2] = Reading(data, q1, 4, acc)
         /\ p3 <= L => \E acc : run[p3] = Reading(data, q2, 2, acc)
         /\ p4 <= L => run[p4] = Reading(data, q3, 0, 0)
<1>0. /\ p \in Nat /\ p1 \in Nat /\ p2 \in Nat /\ p3 \in Nat /\ p4 \in Nat
      /\ p = 4 * j /\ p1 = p + 1 /\ p2 = p + 2 /\ p3 = p + 3 /\ p4 = p + 4
      /\ q \in Nat /\ q1 \in Nat /\ q2 \in Nat /\ q3 \in Nat
      /\ q = 3 * j /\ q1 = q + 1 /\ q2 = q + 2 /\ q3 = q + 3
  BY DEF Places
<1>1. PICK d, d1, d2 : /\ d \in 0..255 /\ d1 \in 0..255 /\ d2 \in 0..255
                       /\ d = At(data, q + 1) /\ d1 = At(data, q1 + 1)
                       /\ d2 = At(data, q2 + 1)
  BY AtIsByte DEF Byte
<1>2. NextByte(data, q, q1, d) /\ NextByte(data, q1, q2, d1) /\ NextByte(data, q2, q3, d2)
  BY <1>0, <1>1 DEF NextByte
<1>3. DigitsOf(data, j, d, d1, d2)
  BY <1>0, <1>2, DigitAt
<1>4. PICK v0, v1 : v0 = d \div 4 /\ v1 = 16 * (d % 4) + (d1 \div 16)
  OBVIOUS
<1>4a. PICK v2 : v2 = 4 * (d1 % 16) + (d2 \div 64)
  OBVIOUS
<1>4b. PICK v3 : v3 = d2 % 64
  OBVIOUS
<1>4c. PICK r1, r2 : r1 = d1 \div 16 /\ r2 = d2 \div 64
  OBVIOUS
<1>5. Assembled(d, d1) /\ Assembled(d1, d2) /\ Assembled(d2, d2)
  <2>1. d \in 0..255 /\ d1 \in 0..255 /\ d2 \in 0..255
    BY <1>1
  <2> QED BY <2>1, Reassembled, Zenon
<1>6. v0 \in 0..63 /\ RestOf6(v0, v1, r1, d)
  BY <1>4, <1>4a, <1>4b, <1>4c, <1>5 DEF Assembled, RestOf6
<1>7. RestOf4(r1, v2, r2, d1) /\ RestOf2(r2, v3, d2)
  BY <1>4, <1>4a, <1>4b, <1>4c, <1>5 DEF Assembled, RestOf4, RestOf2
<1>8. Digit(data, p) = v0 /\ Digit(data, p1) = v1 /\ Digit(data, p2) = v2 /\ Digit(data, p3) = v3
  BY <1>0, <1>3, <1>4, <1>4a, <1>4b, <1>4c DEF DigitsOf
<1>9. /\ ReadChar(Reading(data, q, 0, 0), Letter(v0)) = Reading(data, q, 6, v0)
      /\ ReadChar(Reading(data, q, 6, v0), Letter(v1)) = Reading(data, q1, 4, r1)
      /\ ReadChar(Reading(data, q1, 4, r1), Letter(v2)) = Reading(data, q2, 2, r2)
      /\ ReadChar(Reading(data, q2, 2, r2), Letter(v3)) = Reading(data, q3, 0, 0)
  <2>1. ReadChar(Reading(data, q, 0, 0), Letter(v0)) = Reading(data, q, 6, v0)
    BY <1>0, <1>6, LetterAt0
  <2>2. ReadChar(Reading(data, q, 6, v0), Letter(v1)) = Reading(data, q1, 4, r1)
    BY <1>2, <1>6, LetterAt6
  <2>3. ReadChar(Reading(data, q1, 4, r1), Letter(v2)) = Reading(data, q2, 2, r2)
    BY <1>2, <1>7, LetterAt4
  <2>4. ReadChar(Reading(data, q2, 2, r2), Letter(v3)) = Reading(data, q3, 0, 0)
    BY <1>2, <1>7, LetterAt2
  <2> QED BY <2>1, <2>2, <2>3, <2>4
<1>10. p1 <= L => run[p1] = Reading(data, q, 6, v0)
  <2>1. p1 <= L => p < L /\ p1 = p + 1
    BY <1>0
  <2> QED BY <1>8, <1>9, <2>1, <1>0 DEF Turns, Turn
<1>11. p2 <= L => run[p2] = Reading(data, q1, 4, r1)
  <2>1. p2 <= L => p1 < L /\ p2 = p1 + 1 /\ p1 <= L
    BY <1>0
  <2> QED BY <1>8, <1>9, <1>10, <2>1, <1>0 DEF Turns, Turn
<1>12. p3 <= L => run[p3] = Reading(data, q2, 2, r2)
  <2>1. p3 <= L => p2 < L /\ p3 = p2 + 1 /\ p2 <= L
    BY <1>0
  <2> QED BY <1>8, <1>9, <1>11, <2>1, <1>0 DEF Turns, Turn
<1>13. p4 <= L => run[p4] = Reading(data, q3, 0, 0)
  <2>1. p4 <= L => p3 < L /\ p4 = p3 + 1 /\ p3 <= L
    BY <1>0
  <2> QED BY <1>8, <1>9, <1>12, <2>1, <1>0 DEF Turns, Turn
<1> QED BY <1>11, <1>12, <1>13

\* The decoder holds just these bytes, and may have met the padding.
Holds(st, data) ==
    \E acc, bits, ended : st = [acc |-> acc, bits |-> bits, out |-> data, ended |-> ended]

LettersFor(data, n, L) ==
    n \in Nat /\ L \in Nat /\ n = Len(data) /\ L = (8 * n + 5) \div 6

\* All the letters give the whole bytes.
LEMMA AllLetters ==
  ASSUME NEW data \in Seq(Byte), NEW run, NEW n, NEW L, LettersFor(data, n, L),
         Turns(run, data, L),
         run[0] = Unread
  PROVE  Holds(run[L], data)
<1>0. n \in Nat /\ L \in Nat /\ L = (8 * n + 5) \div 6
  BY DEF LettersFor
<1> DEFINE S == {j \in Nat : 4 * j <= L => run[4 * j] = Reading(data, 3 * j, 0, 0)}
<1>1. 0 \in S
  <2>1. Upto(data, 0) = <<>>
    BY DEF Upto
  <2>2. 4 * 0 = 0 /\ 3 * 0 = 0
    OBVIOUS
  <2> QED BY <2>1, <2>2 DEF Unread, Reading
<1>2. ASSUME NEW j \in Nat, j \in S PROVE j + 1 \in S
  <2> SUFFICES ASSUME 4 * (j + 1) <= L PROVE run[4 * (j + 1)] = Reading(data, 3 * (j + 1), 0, 0)
    OBVIOUS
  <2>1. PICK p, p1, p2, p3, p4, q, q1, q2, q3 : Places(j, p, p1, p2, p3, p4, q, q1, q2, q3)
    BY PlacesExist
  <2>2. 4 * (j + 1) = p4 /\ 3 * (j + 1) = q3 /\ p <= L /\ p4 <= L
    BY <1>0, <2>1 DEF Places
  <2>3. run[p] = Reading(data, q, 0, 0)
    BY <1>0, <1>2, <2>1, <2>2 DEF Places
  <2>4. run[p4] = Reading(data, q3, 0, 0)
    BY <2>1, <2>2, <2>3, <1>0, FourLetters
  <2> QED BY <2>2, <2>4
<1>3. Nat \subseteq S
  <2> HIDE DEF S
  <2> QED BY <1>1, <1>2, SetInduction
<1>4. PICK j \in Nat : n = 3 * j \/ n = 3 * j + 1 \/ n = 3 * j + 2
  <2>1. n \div 3 \in Nat /\ n = 3 * (n \div 3) + (n % 3) /\ n % 3 \in 0..2
    BY <1>0
  <2> QED BY <2>1
<1>5. PICK p, p1, p2, p3, p4, q, q1, q2, q3 : Places(j, p, p1, p2, p3, p4, q, q1, q2, q3)
  BY PlacesExist
<1>6. p <= L
  BY <1>0, <1>4, <1>5 DEF Places
<1>7. run[p] = Reading(data, q, 0, 0)
  BY <1>0, <1>3, <1>5, <1>6 DEF Places
<1>8. /\ p2 <= L => \E acc : run[p2] = Reading(data, q1, 4, acc)
      /\ p3 <= L => \E acc : run[p3] = Reading(data, q2, 2, acc)
  BY <1>0, <1>5, <1>7, FourLetters
<1>9. ASSUME n = 3 * j PROVE \E bits, acc : run[L] = Reading(data, n, bits, acc)
  <2>1. L = p /\ n = q
    BY <1>0, <1>5, <1>9 DEF Places
  <2> QED BY <1>7, <2>1
<1>10. ASSUME n = 3 * j + 1 PROVE \E bits, acc : run[L] = Reading(data, n, bits, acc)
  <2>1. L = p2 /\ n = q1 /\ p2 <= L
    BY <1>0, <1>5, <1>10 DEF Places
  <2> QED BY <1>8, <2>1
<1>11. ASSUME n = 3 * j + 2 PROVE \E bits, acc : run[L] = Reading(data, n, bits, acc)
  <2>1. L = p3 /\ n = q2 /\ p3 <= L
    BY <1>0, <1>5, <1>11 DEF Places
  <2> QED BY <1>8, <2>1
<1>12. PICK bits, acc : run[L] = Reading(data, n, bits, acc)
  BY <1>4, <1>9, <1>10, <1>11
<1>13. Upto(data, n) = data
  BY UptoAll DEF LettersFor
<1> QED BY <1>12, <1>13 DEF Reading, Holds

LEMMA PaddingIsRead ==
  ASSUME NEW st, NEW data, Holds(st, data)
  PROVE  Holds(ReadChar(st, 61), data)
<1>1. DTAB(61) = -2 /\ -2 # -1
  BY DEF DTAB
<1>2. CASE st.ended
  BY <1>2 DEF ReadChar
<1>3. CASE ~st.ended
  <2>1. ReadChar(st, 61) = [st EXCEPT !.ended = TRUE]
    BY <1>1, <1>3 DEF ReadChar
  <2>2. PICK acc, bits, ended :
          st = [acc |-> acc, bits |-> bits, out |-> data, ended |-> ended]
    BY DEF Holds
  <2>3. ReadChar(st, 61) = [acc |-> acc, bits |-> bits, out |-> data, ended |-> TRUE]
    BY <2>1, <2>2
  <2> QED BY <2>3 DEF Holds
<1> QED BY <1>2, <1>3

\* b64_decode gives back the bytes that a client encodes as RFC 4648 says, for
\* data of every length: no bit is lost between letters, and none is added
\* where the padding begins.
THEOREM RoundTrip ==
  ASSUME NEW data \in Seq(Byte)
  PROVE  b64_decode(Letters(data) \o Padding(data)) = data
<1>1. PICK n, L, P : /\ n \in Nat /\ L \in Nat /\ P \in Nat
                     /\ n = Len(data) /\ L = (8 * n + 5) \div 6 /\ P = (3 - (n % 3)) % 3
  <2>1. \A k \in Nat : (8 * k + 5) \div 6 \in Nat /\ (3 - (k % 3)) % 3 \in Nat
    OBVIOUS
  <2> QED BY <2>1
<1>2. /\ Letters(data) = [k \in 1..L |-> Letter(Digit(data, k - 1))]
      /\ Padding(data) = [i \in 1..P |-> 61]
  BY <1>1 DEF Letters, Padding
<1>3. PICK src : src = Letters(data) \o Padding(data)
  OBVIOUS
<1>4. /\ Len(src) = L + P /\ Len(src) \in Nat
      /\ \A k \in 1..L : src[k] = Letter(Digit(data, k - 1))
      /\ \A k \in 1..P : src[L + k] = 61
  BY <1>1, <1>2, <1>3
<1>5. PICK run : /\ run[0] = Unread
                 /\ \A k \in 1..L + P : run[k] = ReadChar(run[k - 1], src[k])
                 /\ b64_decode(src) = run[L + P].out
  BY <1>4, DecodingRuns DEF IsDecoding
<1>6. Turns(run, data, L)
  <2> SUFFICES ASSUME NEW k \in Nat, NEW k1 \in Nat, k < L, k1 = k + 1
               PROVE  Turn(run, data, k, k1)
    BY DEF Turns
  <2>1. k1 \in 1..L /\ k1 \in 1..L + P /\ k1 - 1 = k
    BY <1>1
  <2> QED BY <1>4, <1>5, <2>1 DEF Turn
<1>7. Holds(run[L], data)
  <2>1. LettersFor(data, n, L)
    BY <1>1 DEF LettersFor
  <2>2. run[0] = Unread
    BY <1>5
  <2> QED BY <1>6, <2>1, <2>2, AllLetters
<1> DEFINE T == {k \in Nat : k <= P => Holds(run[L + k], data)}
<1>8. 0 \in T
  <2>1. L + 0 = L
    BY <1>1
  <2> QED BY <1>7, <2>1
<1>9. ASSUME NEW k \in Nat, k \in T PROVE k + 1 \in T
  <2> SUFFICES ASSUME k + 1 <= P PROVE Holds(run[L + (k + 1)], data)
    OBVIOUS
  <2>1. PICK m, m1, k1 : m = L + k /\ m1 = L + (k + 1) /\ k1 = k + 1
    OBVIOUS
  <2>2. m1 \in 1..L + P /\ m1 - 1 = m /\ k1 \in 1..P /\ L + k1 = m1 /\ k <= P
    BY <1>1, <2>1
  <2>3. src[m1] = 61
    BY <1>4, <2>2
  <2>4. run[m1] = ReadChar(run[m], 61)
    BY <1>5, <2>2, <2>3
  <2>5. Holds(run[m], data)
    BY <1>9, <2>1, <2>2
  <2>6. Holds(run[m1], data)
    BY <2>4, <2>5, PaddingIsRead
  <2> QED BY <2>1, <2>6
<1>10. P \in T
  <2> HIDE DEF T
  <2>1. \A k \in Nat : k \in T
    BY <1>8, <1>9, SetInduction
  <2> QED BY <1>1, <2>1
<1>11. Holds(run[L + P], data)
  BY <1>1, <1>10
<1>12. run[L + P].out = data
  BY <1>11 DEF Holds
<1> QED BY <1>3, <1>5, <1>12

(***************************************************************************)
(* Scalars: numbers and strings of MessagePack                             *)
(***************************************************************************)

\* What the tags say.
LEMMA TagWidths ==
  /\ DOMAIN Uint = 204..207 /\ Uint[204] = 1 /\ Uint[205] = 2 /\ Uint[206] = 4 /\ Uint[207] = 8
  /\ DOMAIN Sint = 208..211 /\ Sint[208] = 1 /\ Sint[209] = 2 /\ Sint[210] = 4 /\ Sint[211] = 8
  /\ DOMAIN Str = 217..219 /\ Str[217] = 1 /\ Str[218] = 2 /\ Str[219] = 4
  /\ DOMAIN Bin = 196..198 /\ DOMAIN Floating = 202..203
<1>1. /\ 204 - 204 = 0 /\ 205 - 204 = 1 /\ 206 - 204 = 2 /\ 207 - 204 = 3
      /\ 208 - 208 = 0 /\ 209 - 208 = 1 /\ 210 - 208 = 2 /\ 211 - 208 = 3
      /\ 217 - 217 = 0 /\ 218 - 217 = 1 /\ 219 - 217 = 2
  OBVIOUS
<1>2. /\ 204 \in 204..207 /\ 205 \in 204..207 /\ 206 \in 204..207 /\ 207 \in 204..207
      /\ 208 \in 208..211 /\ 209 \in 208..211 /\ 210 \in 208..211 /\ 211 \in 208..211
      /\ 217 \in 217..219 /\ 218 \in 217..219 /\ 219 \in 217..219
  OBVIOUS
<1>3. /\ Uint[204] = 2^(204 - 204) /\ Uint[205] = 2^(205 - 204)
      /\ Uint[206] = 2^(206 - 204) /\ Uint[207] = 2^(207 - 204)
  BY <1>2 DEF Uint
<1>4. /\ Sint[208] = 2^(208 - 208) /\ Sint[209] = 2^(209 - 208)
      /\ Sint[210] = 2^(210 - 208) /\ Sint[211] = 2^(211 - 208)
  BY <1>2 DEF Sint
<1>5. Str[217] = 2^(217 - 217) /\ Str[218] = 2^(218 - 217) /\ Str[219] = 2^(219 - 217)
  BY <1>2 DEF Str
<1>6. /\ DOMAIN Uint = 204..207 /\ DOMAIN Sint = 208..211 /\ DOMAIN Str = 217..219
      /\ DOMAIN Bin = 196..198 /\ DOMAIN Floating = 202..203
  BY DEF Uint, Sint, Str, Bin, Floating
<1> QED BY <1>1, <1>3, <1>4, <1>5, <1>6, Powers

LEMMA TagsFound ==
  /\ \A width \in {1, 2, 4, 8} : /\ TagOf(Uint, width) \in DOMAIN Uint
                                 /\ Uint[TagOf(Uint, width)] = width
                                 /\ TagOf(Sint, width) \in DOMAIN Sint
                                 /\ Sint[TagOf(Sint, width)] = width
  /\ \A width \in {1, 2, 4} : /\ TagOf(Str, width) \in DOMAIN Str
                              /\ Str[TagOf(Str, width)] = width
<1>1. ASSUME NEW width \in {1, 2, 4, 8}
      PROVE  TagOf(Uint, width) \in DOMAIN Uint /\ Uint[TagOf(Uint, width)] = width
  <2>1. \E tag \in DOMAIN Uint : Uint[tag] = width
    <3>1. 204 \in DOMAIN Uint /\ 205 \in DOMAIN Uint /\ 206 \in DOMAIN Uint /\ 207 \in DOMAIN Uint
      BY TagWidths
    <3> QED BY <3>1, TagWidths
  <2> QED BY <2>1 DEF TagOf
<1>2. ASSUME NEW width \in {1, 2, 4, 8}
      PROVE  TagOf(Sint, width) \in DOMAIN Sint /\ Sint[TagOf(Sint, width)] = width
  <2>1. \E tag \in DOMAIN Sint : Sint[tag] = width
    <3>1. 208 \in DOMAIN Sint /\ 209 \in DOMAIN Sint /\ 210 \in DOMAIN Sint /\ 211 \in DOMAIN Sint
      BY TagWidths
    <3> QED BY <3>1, TagWidths
  <2> QED BY <2>1 DEF TagOf
<1>3. ASSUME NEW width \in {1, 2, 4}
      PROVE  TagOf(Str, width) \in DOMAIN Str /\ Str[TagOf(Str, width)] = width
  <2>1. \E tag \in DOMAIN Str : Str[tag] = width
    <3>1. 217 \in DOMAIN Str /\ 218 \in DOMAIN Str /\ 219 \in DOMAIN Str
      BY TagWidths
    <3> QED BY <3>1, TagWidths
  <2> QED BY <2>1 DEF TagOf
<1> QED BY <1>1, <1>2, <1>3

\* A reader takes what is in front and leaves the rest.
LEMMA FrontRead ==
  ASSUME NEW s \in Seq(Byte), NEW rest \in Seq(Byte), NEW n, n = Len(s)
  PROVE  /\ ~Short(s \o rest, n)
         /\ mr_read(s \o rest, n) = s
         /\ Beyond(s \o rest, n) = rest
<1>1. s \o rest \in Seq(Byte) /\ Len(s \o rest) = Len(s) + Len(rest) /\ Len(s) \in Nat /\ Len(rest) \in Nat
  BY ConcatProperties
<1>2. SubSeq(s \o rest, 1, n) = s
  OBVIOUS
<1>3. SubSeq(s \o rest, n + 1, Len(s \o rest)) = rest
  BY <1>1
<1> QED BY <1>1, <1>2, <1>3 DEF Short, mr_read, Beyond

LEMMA TagAhead ==
  ASSUME NEW tag \in Byte, NEW s \in Seq(Byte), NEW rest \in Seq(Byte)
  PROVE  (<<tag>> \o s) \o rest = <<tag>> \o (s \o rest)
<1>1. PICK one : one = <<tag>>
  OBVIOUS
<1>2. one \in Seq(Byte)
  BY <1>1
<1>3. (one \o s) \o rest = one \o (s \o rest)
  BY <1>2, ConcatAssociative
<1> QED BY <1>1, <1>3

LEMMA TagFirst ==
  ASSUME NEW tag \in Byte, NEW rest \in Seq(Byte)
  PROVE  decode_scalar(<<tag>> \o rest) = Scalar(tag, rest)
<1>1. <<tag>> \in Seq(Byte) /\ Len(<<tag>>) = 1 /\ (<<tag>> \o rest)[1] = tag
  OBVIOUS
<1>2. ~Short(<<tag>> \o rest, 1) /\ Beyond(<<tag>> \o rest, 1) = rest
  BY <1>1, FrontRead
<1> QED BY <1>1, <1>2 DEF decode_scalar

LEMMA ScalarCases ==
  ASSUME NEW tag, NEW buf
  PROVE  /\ tag \in 0..127 => Scalar(tag, buf) = Read(CreateNumber(Unsigned(<<tag>>)), buf)
         /\ tag \in 224..255 => Scalar(tag, buf) = Read(CreateNumber(Signed(<<tag>>)), buf)
         /\ tag \in 160..191 => Scalar(tag, buf) = decode_str(buf, tag - 160)
         /\ tag \in DOMAIN Str => Scalar(tag, buf) = decode_long_str(buf, Str[tag])
         /\ tag \in DOMAIN Uint => Scalar(tag, buf) = decode_unsigned(buf, Uint[tag])
         /\ tag \in DOMAIN Sint => Scalar(tag, buf) = decode_signed(buf, Sint[tag])
<1>0. /\ DOMAIN Uint = 204..207 /\ DOMAIN Sint = 208..211 /\ DOMAIN Str = 217..219
      /\ DOMAIN Bin = 196..198 /\ DOMAIN Floating = 202..203
  BY TagWidths
<1>1. tag \in 0..127 => Scalar(tag, buf) = Read(CreateNumber(Unsigned(<<tag>>)), buf)
  BY <1>0 DEF Scalar
<1>2. tag \in 224..255 => Scalar(tag, buf) = Read(CreateNumber(Signed(<<tag>>)), buf)
  BY <1>0 DEF Scalar
<1>3. tag \in 160..191 => Scalar(tag, buf) = decode_str(buf, tag - 160)
  BY <1>0 DEF Scalar
<1>4. tag \in DOMAIN Str => Scalar(tag, buf) = decode_long_str(buf, Str[tag])
  BY <1>0 DEF Scalar
<1>5. tag \in DOMAIN Uint => Scalar(tag, buf) = decode_unsigned(buf, Uint[tag])
  BY <1>0 DEF Scalar
<1>6. tag \in DOMAIN Sint => Scalar(tag, buf) = decode_signed(buf, Sint[tag])
  BY <1>0 DEF Scalar
<1> QED BY <1>1, <1>2, <1>3, <1>4, <1>5, <1>6

LEMMA NumberRead ==
  ASSUME NEW tag, NEW bytes \in Seq(Byte), NEW rest \in Seq(Byte)
  PROVE  /\ tag \in DOMAIN Uint /\ Uint[tag] = Len(bytes) =>
              Scalar(tag, bytes \o rest) = Read(CreateNumber(Unsigned(bytes)), rest)
         /\ tag \in DOMAIN Sint /\ Sint[tag] = Len(bytes) =>
              Scalar(tag, bytes \o rest) = Read(CreateNumber(Signed(bytes)), rest)
<1>1. PICK n : n = Len(bytes)
  OBVIOUS
<1>2. /\ ~Short(bytes \o rest, n)
      /\ mr_read(bytes \o rest, n) = bytes
      /\ Beyond(bytes \o rest, n) = rest
  BY <1>1, FrontRead
<1>3. /\ decode_unsigned(bytes \o rest, n) = Read(CreateNumber(Unsigned(bytes)), rest)
      /\ decode_signed(bytes \o rest, n) = Read(CreateNumber(Signed(bytes)), rest)
  BY <1>2 DEF decode_unsigned, decode_signed
<1>4. tag \in DOMAIN Uint /\ Uint[tag] = n =>
         Scalar(tag, bytes \o rest) = decode_unsigned(bytes \o rest, n)
  BY ScalarCases
<1>5. tag \in DOMAIN Sint /\ Sint[tag] = n =>
         Scalar(tag, bytes \o rest) = decode_signed(bytes \o rest, n)
  BY ScalarCases
<1> QED BY <1>1, <1>3, <1>4, <1>5

\* What an encoder leaves out in front is what the decoder puts there again.
LEMMA Widened ==
  ASSUME NEW raw \in Seq(Byte), Len(raw) = 9, NEW width \in {1, 2, 4, 8}, Fits(raw, width)
  PROVE  /\ SubSeq(raw, 10 - width, 9) \in Seq(Byte) /\ Len(SubSeq(raw, 10 - width, 9)) = width
         /\ \A i \in 1..width : SubSeq(raw, 10 - width, 9)[i] = raw[9 - width + i]
         /\ ~Negative(raw) => Unsigned(SubSeq(raw, 10 - width, 9)) = raw
         /\ Negative(raw) => Signed(SubSeq(raw, 10 - width, 9)) = raw
<1>0. /\ width \in Nat /\ 9 - width \in Nat
      /\ \A i \in 1..9 : raw[i] \in Byte
  BY ElementOfSeq
<1> DEFINE kept == SubSeq(raw, 10 - width, 9)
<1>1. /\ kept \in Seq(Byte) /\ Len(kept) = width
      /\ \A i \in 1..width : kept[i] = raw[9 - width + i]
  <2>1. \A i \in 10 - width..9 : raw[i] \in Byte
    BY <1>0
  <2>2. 10 - width <= 9 /\ 10 - width \in Int /\ 9 - (10 - width) + 1 = width
    OBVIOUS
  <2> QED BY <2>1, <2>2, SubSeqProperties
<1> HIDE DEF kept
<1>3. ASSUME NEW fill \in Byte, \A i \in 1..9 - width : raw[i] = fill
      PROVE  [i \in 1..9 - width |-> fill] \o kept = raw
  <2> DEFINE before == [i \in 1..9 - width |-> fill]
  <2>1. before \in Seq(Byte) /\ Len(before) = 9 - width
    OBVIOUS
  <2>2. \A i \in 1..9 - width : before[i] = fill
    OBVIOUS
  <2> HIDE DEF before
  <2>3. PICK whole : whole = before \o kept
    OBVIOUS
  <2>4. /\ whole \in Seq(Byte) /\ Len(whole) = 9
        /\ \A i \in 1..9 : whole[i] = IF i <= 9 - width THEN before[i]
                                      ELSE kept[i - (9 - width)]
    <3>1. /\ whole \in Seq(Byte) /\ Len(whole) = Len(before) + Len(kept)
          /\ \A i \in 1..Len(before) + Len(kept) : whole[i] =
                IF i <= Len(before) THEN before[i] ELSE kept[i - Len(before)]
      <4>1. before \in Seq(Byte) /\ kept \in Seq(Byte)
        BY <1>1, <2>1
      <4> QED BY <2>3, <4>1, ConcatProperties
    <3>2. Len(before) + Len(kept) = 9
      BY <1>0, <1>1, <2>1
    <3> QED BY <2>1, <3>1, <3>2
  <2>5. ASSUME NEW i \in 1..9 PROVE whole[i] = raw[i]
    <3>1. CASE i <= 9 - width
      <4>1. i \in 1..9 - width
        BY <1>0, <3>1
      <4> QED BY <1>3, <2>2, <2>4, <3>1, <4>1
    <3>2. CASE ~(i <= 9 - width)
      <4>1. PICK k : k = i - (9 - width)
        OBVIOUS
      <4>2. k \in 1..width /\ 9 - width + k = i
        BY <1>0, <3>2, <4>1
      <4>3. whole[i] = kept[k]
        BY <2>4, <3>2, <4>1
      <4> QED BY <1>1, <4>2, <4>3
    <3> QED BY <3>1, <3>2
  <2>6. whole = raw
    BY <2>4, <2>5, SeqEqual
  <2> QED BY <2>3, <2>6 DEF before
<1>4. ~Negative(raw) => Unsigned(kept) = raw
  <2>1. ~Negative(raw) => \A i \in 1..9 - width : raw[i] = 0
    BY DEF Fits
  <2>2. 0 \in Byte
    BY DEF Byte
  <2> QED BY <1>1, <1>3, <2>1, <2>2 DEF Unsigned
<1>5. Negative(raw) => Signed(kept) = raw
  <2>1. Negative(raw) => (\A i \in 1..9 - width : raw[i] = 255) /\ raw[10 - width] >= 128
    BY DEF Fits
  <2>2. kept[1] = raw[10 - width]
    BY <1>1
  <2>3. 255 \in Byte
    BY DEF Byte
  <2>4. kept[1] >= 128 => Signed(kept) = [i \in 1..9 - width |-> 255] \o kept
    BY <1>1 DEF Signed
  <2> QED BY <1>3, <2>1, <2>2, <2>3, <2>4
<1> QED BY <1>1, <1>4, <1>5 DEF kept

LEMMA PackedRead ==
  ASSUME NEW raw \in Seq(Byte), Len(raw) = 9, Fits(raw, 8), NEW rest \in Seq(Byte)
  PROVE  decode_scalar(encode_number(raw) \o rest) = Read(CreateNumber(raw), rest)
<1> DEFINE widths == {w \in {1, 2, 4, 8} : Fits(raw, w)}
           width == Min(widths)
<1>2. width \in {1, 2, 4, 8} /\ Fits(raw, width)
  <2>1. \E m \in widths : \A y \in widths : m <= y
    <3>1. 8 \in widths
      OBVIOUS
    <3>2. CASE 1 \in widths
      BY <3>2
    <3>3. CASE 1 \notin widths /\ 2 \in widths
      BY <3>3
    <3>4. CASE 1 \notin widths /\ 2 \notin widths /\ 4 \in widths
      BY <3>4
    <3>5. CASE 1 \notin widths /\ 2 \notin widths /\ 4 \notin widths
      BY <3>1, <3>5
    <3> QED BY <3>2, <3>3, <3>4, <3>5
  <2>2. PICK m : m \in widths /\ \A y \in widths : m <= y
    BY <2>1
  <2>3. widths \subseteq Nat
    OBVIOUS
  <2>4. width = m
    <3> HIDE DEF widths
    <3> QED BY <2>2, <2>3, MinIs
  <2> QED BY <2>2, <2>4
<1> HIDE DEF width
<1> DEFINE kept == SubSeq(raw, 10 - width, 9)
<1>3. /\ kept \in Seq(Byte) /\ Len(kept) = width
      /\ \A i \in 1..width : kept[i] = raw[9 - width + i]
      /\ ~Negative(raw) => Unsigned(kept) = raw
      /\ Negative(raw) => Signed(kept) = raw
  BY <1>2, Widened
<1>4. CASE width = 1 /\ raw[9] \in (IF Negative(raw) THEN 224..255 ELSE 0..127)
  <2>1. encode_number(raw) = <<raw[9]>>
    BY <1>4 DEF encode_number, width, widths
  <2>2. raw[9] \in Byte
    <3>1. \A i \in 1..9 : raw[i] \in Byte
      BY ElementOfSeq
    <3> QED BY <3>1
  <2>3. kept = <<raw[9]>>
    <3>1. kept[1] = raw[9]
      BY <1>3, <1>4
    <3> HIDE DEF kept
    <3> QED BY <1>3, <1>4, <2>2, <3>1
  <2>4. decode_scalar(<<raw[9]>> \o rest) = Scalar(raw[9], rest)
    BY <2>2, TagFirst
  <2>5. CASE Negative(raw)
    <3>1. raw[9] \in 224..255
      BY <1>4, <2>5
    <3>2. Scalar(raw[9], rest) = Read(CreateNumber(Signed(<<raw[9]>>)), rest)
      BY <3>1, ScalarCases
    <3> QED BY <1>3, <2>1, <2>3, <2>4, <2>5, <3>2
  <2>6. CASE ~Negative(raw)
    <3>1. raw[9] \in 0..127
      BY <1>4, <2>6
    <3>2. Scalar(raw[9], rest) = Read(CreateNumber(Unsigned(<<raw[9]>>)), rest)
      BY <3>1, ScalarCases
    <3> QED BY <1>3, <2>1, <2>3, <2>4, <2>6, <3>2
  <2> QED BY <2>5, <2>6
<1>5. CASE ~(width = 1 /\ raw[9] \in (IF Negative(raw) THEN 224..255 ELSE 0..127))
  <2> DEFINE tag == TagOf(IF Negative(raw) THEN Sint ELSE Uint, width)
  <2>1. encode_number(raw) = <<tag>> \o kept
    BY <1>5 DEF encode_number, width, widths
  <2>2. /\ ~Negative(raw) => tag \in DOMAIN Uint /\ Uint[tag] = width
        /\ Negative(raw) => tag \in DOMAIN Sint /\ Sint[tag] = width
    BY <1>2, TagsFound
  <2>3. tag \in Byte
    BY <2>2, TagWidths DEF Byte
  <2> HIDE DEF tag, kept
  <2>4. (<<tag>> \o kept) \o rest = <<tag>> \o (kept \o rest) /\ kept \o rest \in Seq(Byte)
    BY <1>3, <2>3, TagAhead, ConcatProperties
  <2>5. decode_scalar(encode_number(raw) \o rest) = Scalar(tag, kept \o rest)
    BY <2>1, <2>3, <2>4, TagFirst
  <2>6. CASE Negative(raw)
    <3>1. Scalar(tag, kept \o rest) = Read(CreateNumber(Signed(kept)), rest)
      BY <1>3, <2>2, <2>6, NumberRead
    <3> QED BY <1>3, <2>5, <2>6, <3>1
  <2>7. CASE ~Negative(raw)
    <3>1. Scalar(tag, kept \o rest) = Read(CreateNumber(Unsigned(kept)), rest)
      BY <1>3, <2>2, <2>7, NumberRead
    <3> QED BY <1>3, <2>5, <2>7, <3>1
  <2> QED BY <2>6, <2>7
<1> QED BY <1>4, <1>5

\* The distance of two doubles.
Units == {1, 2, 4, 8, 16, 32, 64, 128, 256, 512, 1024, 2048}

LEMMA UnitsAre == {2^k : k \in 0..11} = Units
<1>1. /\ 2^0 = 1 /\ 2^1 = 2 /\ 2^2 = 4 /\ 2^3 = 8 /\ 2^4 = 16 /\ 2^5 = 32 /\ 2^6 = 64
      /\ 2^7 = 128 /\ 2^8 = 256 /\ 2^9 = 512 /\ 2^10 = 1024 /\ 2^11 = 2048
  BY SMT
<1>2. 0..11 = {0, 1, 2, 3, 4, 5, 6, 7, 8, 9, 10, 11}
  BY SMT
<1>3. {2^k : k \in 0..11} = {2^0, 2^1, 2^2, 2^3, 2^4, 2^5, 2^6, 2^7, 2^8, 2^9, 2^10, 2^11}
  BY <1>2, Zenon
<1> QED BY <1>1, <1>3, SMT DEF Units

\* A whole number of nine bytes, without the theory of sequences.
LEMMA BytesOf ==
  ASSUME NEW raw \in Seq(Byte), Len(raw) = 9
  PROVE  /\ raw \in [1..9 -> Int]
         /\ \A i \in 1..9 : 0 <= raw[i] /\ raw[i] <= 255
<1>1. ASSUME NEW i \in 1..9 PROVE raw[i] \in Byte
  BY ElementOfSeq
<1>2. \A b \in Byte : b \in Int /\ 0 <= b /\ b <= 255
  BY DEF Byte
<1>3. raw \in [1..9 -> Byte]
  BY LenProperties
<1> QED BY <1>1, <1>2, <1>3

LEMMA UnitIs ==
  ASSUME NEW raw \in [1..9 -> Int], \A i \in 1..9 : 0 <= raw[i] /\ raw[i] <= 255
  PROVE  /\ Low(raw) \in Nat /\ Low(raw) < 65536
         /\ Unit(raw) \in Units /\ High(raw) < 32 * Unit(raw)
         /\ High(raw) < 32 => Unit(raw) = 1
<1>1. Low(raw) \in Nat /\ Low(raw) < 65536
  BY SMT DEF Low
<1>2. PICK high \in Int : high = High(raw) /\ high < 65536
  <2>1. PICK h \in Int : h = 256 * raw[2] + raw[3] /\ 0 <= h /\ h < 65536
    OBVIOUS
  <2>2. High(raw) = h \/ High(raw) = 65535 - h
    BY <2>1 DEF High
  <2> QED BY <2>1, <2>2
<1> DEFINE enough == {unit \in Units : high < 32 * unit}
<1>3. \E m \in Units : high < 32 * m /\ \A y \in Units : high < 32 * y => m <= y
  BY <1>2, SMT DEF Units
<1>4. PICK m \in enough : \A y \in enough : m <= y
  BY <1>3
<1>5. Min(enough) = m
  <2>1. enough \subseteq Nat
    BY DEF Units
  <2> HIDE DEF enough
  <2> QED BY <1>4, <2>1, MinIs
<1>6. Unit(raw) = m
  <2>1. Unit(raw) = Min({unit \in Units : High(raw) < 32 * unit})
    BY UnitsAre, Zenon DEF Unit
  <2> QED BY <1>2, <1>5, <2>1
<1>7. high < 32 => m = 1
  <2>1. 1 \in Units /\ \A u \in Units : u \in Int /\ u >= 1
    BY DEF Units
  <2> QED BY <1>2, <1>4, <2>1
<1> QED BY <1>1, <1>2, <1>4, <1>6, <1>7

\* The multiple of a unit that is at most half a unit away.
LEMMA RoundIs ==
  ASSUME NEW low \in Nat, low < 65536, NEW unit \in Units
  PROVE  /\ Round(low, unit) \in Nat /\ Round(low, unit) <= 65536
         /\ Round(low, unit) % unit = 0
         /\ 2 * (Round(low, unit) - low) <= unit /\ 2 * (low - Round(low, unit)) <= unit
         /\ unit = 1 => Round(low, unit) = low
<1>1. CASE unit = 1 BY <1>1, SMT DEF Round
<1>2. CASE unit = 2 BY <1>2, SMT DEF Round
<1>3. CASE unit = 4 BY <1>3, SMT DEF Round
<1>4. CASE unit = 8 BY <1>4, SMT DEF Round
<1>5. CASE unit = 16 BY <1>5, SMT DEF Round
<1>6. CASE unit = 32 BY <1>6, SMT DEF Round
<1>7. CASE unit = 64 BY <1>7, SMT DEF Round
<1>8. CASE unit = 128 BY <1>8, SMT DEF Round
<1>9. CASE unit = 256 BY <1>9, SMT DEF Round
<1>10. CASE unit = 512 BY <1>10, SMT DEF Round
<1>11. CASE unit = 1024 BY <1>11, SMT DEF Round
<1>12. CASE unit = 2048 BY <1>12, SMT DEF Round
<1> QED
  BY <1>1, <1>2, <1>3, <1>4, <1>5, <1>6, <1>7, <1>8, <1>9, <1>10, <1>11, <1>12 DEF Units

LEMMA TwoBytes ==
  ASSUME NEW c \in Int, 0 <= c, c <= 255, NEW d \in Int, 0 <= d, d <= 255,
         NEW n, n = 256 * c + d
  PROVE  n % 256 = d /\ (n \div 256) % 256 = c /\ n # 65536
BY SMT

\* Up to 2^53 nothing is lost.
LEMMA SmallIsExact ==
  ASSUME NEW raw \in [1..9 -> Int], \A i \in 1..9 : 0 <= raw[i] /\ raw[i] <= 255,
         High(raw) < 32
  PROVE  Double(raw) = raw
<1>1. Rounded(raw) = Low(raw)
  <2>1. Low(raw) \in Nat /\ Low(raw) < 65536 /\ Unit(raw) \in Units /\ Unit(raw) = 1
    BY UnitIs
  <2> QED BY <2>1, RoundIs DEF Rounded
<1>2. /\ Rounded(raw) % 256 = raw[9] /\ (Rounded(raw) \div 256) % 256 = raw[8]
      /\ Rounded(raw) # 65536
  <2>1. /\ raw[8] \in Int /\ 0 <= raw[8] /\ raw[8] <= 255
        /\ raw[9] \in Int /\ 0 <= raw[9] /\ raw[9] <= 255
    OBVIOUS
  <2>2. Rounded(raw) = 256 * raw[8] + raw[9]
    BY <1>1 DEF Low
  <2> QED BY <2>1, <2>2, TwoBytes
<1>3. ASSUME NEW i \in 1..9 PROVE Double(raw)[i] = raw[i]
  <2>1. CASE i = 9
    BY <1>2, <2>1 DEF Double
  <2>2. CASE i = 8
    BY <1>2, <2>2 DEF Double
  <2>3. CASE i < 8
    BY <1>2, <2>3 DEF Double
  <2> QED BY <2>1, <2>2, <2>3
<1>4. Double(raw) = [i \in 1..9 |-> Double(raw)[i]]
  BY DEF Double
<1> QED BY <1>3, <1>4

\* The whole number of nine bytes.
Horner(a, b, c, d, e, f, g) ==
    256 * (256 * (256 * (256 * (256 * (256 * a + b) + c) + d) + e) + f) + g

First(raw) == IF Negative(raw) THEN raw[1] - 256 ELSE raw[1]

Upper(raw) == Horner(First(raw), raw[2], raw[3], raw[4], raw[5], raw[6], raw[7])

Value(raw) == 65536 * Upper(raw) + Low(raw)

\* What is read is as far from what was sent as its last two bytes were rounded.
LEMMA DoubleIs ==
  ASSUME NEW raw \in [1..9 -> Int], \A i \in 1..9 : 0 <= raw[i] /\ raw[i] <= 255,
         raw[1] = IF Negative(raw) THEN 255 ELSE 0
  PROVE  Value(Double(raw)) = Value(raw) + Rounded(raw) - Low(raw)
<1>1. /\ Low(raw) \in Nat /\ Low(raw) < 65536
      /\ Unit(raw) \in Units /\ High(raw) < 32 * Unit(raw)
      /\ High(raw) < 32 => Unit(raw) = 1
  BY UnitIs
<1>2. /\ Rounded(raw) \in Nat /\ Rounded(raw) <= 65536
      /\ Unit(raw) = 1 => Rounded(raw) = Low(raw)
  BY <1>1, RoundIs DEF Rounded
<1>3. CASE Rounded(raw) # 65536
  <2>1. \A i \in 1..7 : Double(raw)[i] = raw[i]
    BY <1>3 DEF Double
  <2>2. Upper(Double(raw)) = Upper(raw)
    BY <2>1 DEF Upper, First, Negative
  <2>3. Low(Double(raw)) = Rounded(raw)
    <3>1. PICK r \in Nat : r = Rounded(raw) /\ r < 65536
      BY <1>2, <1>3
    <3>2. Double(raw)[9] = r % 256 /\ Double(raw)[8] = (r \div 256) % 256
      BY <3>1 DEF Double
    <3>3. 256 * ((r \div 256) % 256) + (r % 256) = r
      BY <3>1, SMT
    <3> QED BY <3>1, <3>2, <3>3 DEF Low
  <2>4. Upper(raw) \in Int
    BY DEF Upper, First, Horner
  <2> QED BY <1>1, <1>2, <2>2, <2>3, <2>4 DEF Value
<1>4. CASE Rounded(raw) = 65536
  <2>1. ~(Negative(raw) /\ raw[2] = 255 /\ raw[3] = 255)
    <3>1. SUFFICES ASSUME Negative(raw), raw[2] = 255, raw[3] = 255 PROVE FALSE
      OBVIOUS
    <3>2. High(raw) = 0
      BY <3>1 DEF High
    <3> QED BY <1>1, <1>2, <1>4, <3>2
  <2>2. Low(Double(raw)) = 0
    <3>1. 65536 % 256 = 0 /\ (65536 \div 256) % 256 = 0
      BY SMT
    <3>2. Double(raw)[9] = 0 /\ Double(raw)[8] = 0
      BY <1>4, <3>1 DEF Double
    <3> QED BY <3>2 DEF Low
  <2>3. Upper(Double(raw)) = Upper(raw) + 1
    <3>1. \A i \in 1..7 : Double(raw)[i] = IF \A j \in i + 1..7 : raw[j] = 255
                                           THEN (raw[i] + 1) % 256 ELSE raw[i]
      BY <1>4 DEF Double
    <3> DEFINE a == First(raw)
               b == raw[2]
               c == raw[3]
               d == raw[4]
               e == raw[5]
               f == raw[6]
               g == raw[7]
    <3>2. /\ a \in -1..0 /\ b \in 0..255 /\ c \in 0..255 /\ d \in 0..255
          /\ e \in 0..255 /\ f \in 0..255 /\ g \in 0..255
          /\ ~(a = -1 /\ b = 255 /\ c = 255)
      BY <2>1 DEF First
    <3> DEFINE aa == IF b = 255 /\ c = 255 /\ d = 255 /\ e = 255 /\ f = 255 /\ g = 255
                     THEN a + 1 ELSE a
               bb == IF c = 255 /\ d = 255 /\ e = 255 /\ f = 255 /\ g = 255
                     THEN (b + 1) % 256 ELSE b
               cc == IF d = 255 /\ e = 255 /\ f = 255 /\ g = 255 THEN (c + 1) % 256 ELSE c
               dd == IF e = 255 /\ f = 255 /\ g = 255 THEN (d + 1) % 256 ELSE d
               ee == IF f = 255 /\ g = 255 THEN (e + 1) % 256 ELSE e
               ff == IF g = 255 THEN (f + 1) % 256 ELSE f
               gg == (g + 1) % 256
    <3>3. First(Double(raw)) = aa
      BY <2>1, <3>1 DEF First, Negative
    <3>4. Double(raw)[2] = bb /\ Double(raw)[3] = cc
      BY <3>1
    <3>5. Double(raw)[4] = dd /\ Double(raw)[5] = ee
      BY <3>1
    <3>6. Double(raw)[6] = ff /\ Double(raw)[7] = gg
      BY <3>1
    <3>7. Upper(raw) = Horner(a, b, c, d, e, f, g)
      BY DEF Upper
    <3>8. Horner(aa, bb, cc, dd, ee, ff, gg) = Horner(a, b, c, d, e, f, g) + 1
      <4> HIDE DEF a, b, c, d, e, f, g
      <4> QED BY <3>2, SMTT(30) DEF Horner
    <3> HIDE DEF aa, bb, cc, dd, ee, ff, gg
    <3>9. Upper(Double(raw)) = Horner(aa, bb, cc, dd, ee, ff, gg)
      BY <3>3, <3>4, <3>5, <3>6 DEF Upper
    <3> QED BY <3>7, <3>8, <3>9
  <2>4. Upper(raw) \in Int
    BY DEF Upper, First, Horner
  <2> QED BY <1>1, <1>4, <2>2, <2>3, <2>4 DEF Value
<1> QED BY <1>3, <1>4

LEMMA Multiple ==
  ASSUME NEW upper \in Int, NEW low \in Nat, NEW unit \in Units, low % unit = 0
  PROVE  (65536 * upper + low) % unit = 0
<1>1. CASE unit = 1 BY <1>1, SMT
<1>2. CASE unit = 2 BY <1>2, SMT
<1>3. CASE unit = 4 BY <1>3, SMT
<1>4. CASE unit = 8 BY <1>4, SMT
<1>5. CASE unit = 16 BY <1>5, SMT
<1>6. CASE unit = 32 BY <1>6, SMT
<1>7. CASE unit = 64 BY <1>7, SMT
<1>8. CASE unit = 128 BY <1>8, SMT
<1>9. CASE unit = 256 BY <1>9, SMT
<1>10. CASE unit = 512 BY <1>10, SMT
<1>11. CASE unit = 1024 BY <1>11, SMT
<1>12. CASE unit = 2048 BY <1>12, SMT
<1> QED
  BY <1>1, <1>2, <1>3, <1>4, <1>5, <1>6, <1>7, <1>8, <1>9, <1>10, <1>11, <1>12 DEF Units

LEMMA NearestIs ==
  ASSUME NEW raw \in [1..9 -> Int], \A i \in 1..9 : 0 <= raw[i] /\ raw[i] <= 255,
         raw[1] = IF Negative(raw) THEN 255 ELSE 0
  PROVE  /\ High(raw) < 32 * Unit(raw)
         /\ Value(Double(raw)) % Unit(raw) = 0
         /\ 2 * (Value(Double(raw)) - Value(raw)) <= Unit(raw)
         /\ 2 * (Value(raw) - Value(Double(raw))) <= Unit(raw)
<1>1. /\ Low(raw) \in Nat /\ Low(raw) < 65536
      /\ Unit(raw) \in Units /\ High(raw) < 32 * Unit(raw)
  BY UnitIs
<1>2. /\ Rounded(raw) \in Nat /\ Rounded(raw) % Unit(raw) = 0
      /\ 2 * (Rounded(raw) - Low(raw)) <= Unit(raw)
      /\ 2 * (Low(raw) - Rounded(raw)) <= Unit(raw)
  BY <1>1, RoundIs DEF Rounded
<1>3. Upper(raw) \in Int
  BY DEF Upper, First, Horner
<1>4. /\ Value(raw) = 65536 * Upper(raw) + Low(raw)
      /\ Value(Double(raw)) = Value(raw) + Rounded(raw) - Low(raw)
  BY DoubleIs DEF Value
<1>5. /\ Value(Double(raw)) - Value(raw) = Rounded(raw) - Low(raw)
      /\ Value(raw) - Value(Double(raw)) = Low(raw) - Rounded(raw)
      /\ Value(Double(raw)) = 65536 * Upper(raw) + Rounded(raw)
  BY <1>1, <1>2, <1>3, <1>4
<1>6. Value(Double(raw)) % Unit(raw) = 0
  BY <1>1, <1>2, <1>3, <1>5, Multiple
<1> QED BY <1>1, <1>2, <1>5, <1>6

\* Whatever whole number of 64 bits a client packs, in one byte or nine, with a
\* sign or without: decode_value reads the double nearest to it, and no byte of
\* what follows.  The number itself is read up to 2^53.  Beyond, with High less
\* than 32 units the doubles are multiples of the unit, and the one that is read
\* is at most half a unit away.
THEOREM NumbersArrive ==
  ASSUME NEW raw \in Seq(Byte), Len(raw) = 9, Fits(raw, 8), NEW rest \in Seq(Byte)
  PROVE  /\ decode_scalar(encode_number(raw) \o rest) = Read(Whole(Double(raw)), rest)
         /\ High(raw) < 32 => Double(raw) = raw
         /\ High(raw) < 32 * Unit(raw) /\ Value(Double(raw)) % Unit(raw) = 0
         /\ 2 * (Value(Double(raw)) - Value(raw)) <= Unit(raw)
         /\ 2 * (Value(raw) - Value(Double(raw))) <= Unit(raw)
<1>1. raw \in [1..9 -> Int] /\ \A i \in 1..9 : 0 <= raw[i] /\ raw[i] <= 255
  BY BytesOf
<1>2. raw[1] = IF Negative(raw) THEN 255 ELSE 0
  BY DEF Fits
<1>3. decode_scalar(encode_number(raw) \o rest) = Read(Whole(Double(raw)), rest)
  BY PackedRead DEF CreateNumber
<1>4. High(raw) < 32 => Double(raw) = raw
  BY <1>1, SmallIsExact
<1>5. /\ High(raw) < 32 * Unit(raw) /\ Value(Double(raw)) % Unit(raw) = 0
      /\ 2 * (Value(Double(raw)) - Value(raw)) <= Unit(raw)
      /\ 2 * (Value(raw) - Value(Double(raw))) <= Unit(raw)
  BY <1>1, <1>2, NearestIs
<1> QED BY <1>3, <1>4, <1>5

\* A length written in so many bytes is the length that is read from them.
LEMMA LengthBack ==
  ASSUME NEW n \in Nat, n < LengthCap, NEW width \in {1, 2, 4}, width = 4 \/ n < 256^width
  PROVE  /\ BigEndian(n, width) \in Seq(Byte) /\ Len(BigEndian(n, width)) = width
         /\ Length(BigEndian(n, width)) = n
<1>1. 256^0 = 1 /\ 256^1 = 256 /\ 256^2 = 65536 /\ 256^3 = 256 * 65536
  BY SMT
<1>2. PICK cap \in Nat : cap = LengthCap /\ n < cap /\ cap <= 128 * 65536
  BY SMT DEF LengthCap
<1>3. PICK a \in Nat, b \in Nat, c \in Nat :
         /\ a = (n \div 65536) % 256 /\ b = (n \div 256) % 256 /\ c = n % 256
         /\ a \in Byte /\ b \in Byte /\ c \in Byte
  BY SMT DEF Byte
<1>4. /\ a = n \div 65536 /\ (n \div (256 * 65536)) % 256 = 0
      /\ 256 * a + b = n \div 256 /\ 256 * (n \div 256) + c = n
      /\ n < 65536 => b = n \div 256
      /\ n < 256 => c = n
  BY <1>2, <1>3, SMT
<1>5. PICK h \in Nat : h = n \div 256 /\ h < cap /\ a < cap
  BY <1>2, <1>4, SMT
<1> DEFINE bytes == BigEndian(n, width)
           capped(m) == IF m < LengthCap THEN m ELSE LengthCap
           upto == CHOOSE f : f = [i \in 0..Len(bytes) |->
                       IF i = 0 THEN 0 ELSE capped(f[i - 1] * 256 + bytes[i])]
<1>6. /\ width = 1 => bytes = <<c>>
      /\ width = 2 => bytes = <<b, c>>
      /\ width = 4 => bytes = <<0, a, b, c>>
  <2>1. CASE width = 1
    <3>1. (n \div 1) % 256 = c
      BY <1>3, SMT
    <3>2. bytes = [i \in 1..1 |-> c]
      BY <1>1, <2>1, <3>1, SMT DEF BigEndian
    <3> HIDE DEF bytes
    <3> QED BY <2>1, <3>2, SMT
  <2>2. CASE width = 2
    <3>1. (n \div 1) % 256 = c
      BY <1>3, SMT
    <3>2. bytes = [i \in 1..2 |-> IF i = 1 THEN b ELSE c]
      BY <1>1, <1>3, <2>2, <3>1, SMT DEF BigEndian
    <3> HIDE DEF bytes
    <3> QED BY <2>2, <3>2, SMT
  <2>3. CASE width = 4
    <3>1. (n \div 1) % 256 = c
      BY <1>3, SMT
    <3>2. ASSUME NEW i \in 1..4
          PROVE  (n \div 256^(4 - i)) % 256 =
                    IF i = 1 THEN 0 ELSE IF i = 2 THEN a ELSE IF i = 3 THEN b ELSE c
      <4>1. PICK e : e = 4 - i
        OBVIOUS
      <4>2. CASE i = 1
        <5>1. e = 3
          BY <4>1, <4>2
        <5>2. (n \div 256^3) % 256 = 0
          BY <1>1, <1>4, SMT
        <5> QED BY <4>1, <4>2, <5>1, <5>2
      <4>3. CASE i = 2
        <5>1. e = 2
          BY <4>1, <4>3
        <5>2. (n \div 256^2) % 256 = a
          BY <1>1, <1>3, SMT
        <5> QED BY <4>1, <4>3, <5>1, <5>2
      <4>4. CASE i = 3
        <5>1. e = 1
          BY <4>1, <4>4
        <5>2. (n \div 256^1) % 256 = b
          BY <1>1, <1>3, SMT
        <5> QED BY <4>1, <4>4, <5>1, <5>2
      <4>5. CASE i = 4
        <5>1. e = 0
          BY <4>1, <4>5
        <5>2. (n \div 256^0) % 256 = c
          BY <1>1, <3>1, SMT
        <5> QED BY <4>1, <4>5, <5>1, <5>2
      <4> QED BY <4>2, <4>3, <4>4, <4>5
    <3>3. bytes = [i \in 1..4 |-> IF i = 1 THEN 0 ELSE IF i = 2 THEN a
                                  ELSE IF i = 3 THEN b ELSE c]
      <4> DEFINE place(i) == (n \div 256^(4 - i)) % 256
                 value(i) == IF i = 1 THEN 0 ELSE IF i = 2 THEN a ELSE IF i = 3 THEN b ELSE c
      <4>1. bytes = [i \in 1..4 |-> place(i)]
        BY <2>3 DEF BigEndian
      <4>2. \A i \in 1..4 : place(i) = value(i)
        BY <3>2
      <4> HIDE DEF bytes, place, value
      <4>3. bytes = [i \in 1..4 |-> value(i)]
        BY <4>1, <4>2
      <4> QED BY <4>3 DEF value
    <3> HIDE DEF bytes
    <3> QED BY <2>3, <3>3, SMT
  <2> QED BY <2>1, <2>2, <2>3
<1>7. bytes \in Seq(Byte) /\ Len(bytes) = width
  <2> HIDE DEF bytes
  <2>1. 0 \in Byte
    BY DEF Byte
  <2>2. /\ <<c>> \in Seq(Byte) /\ Len(<<c>>) = 1
        /\ <<b, c>> \in Seq(Byte) /\ Len(<<b, c>>) = 2
        /\ <<0, a, b, c>> \in Seq(Byte) /\ Len(<<0, a, b, c>>) = 4
    BY <1>3, <2>1
  <2>3. CASE width = 1
    BY <1>6, <2>2, <2>3, Zenon
  <2>4. CASE width = 2
    BY <1>6, <2>2, <2>4, Zenon
  <2>5. CASE width = 4
    BY <1>6, <2>2, <2>5, Zenon
  <2> QED BY <2>3, <2>4, <2>5
<1>8. Length(bytes) = upto[Len(bytes)]
  BY Zenon DEF Length
<1> HIDE DEF bytes
<1> DEFINE runs(f) == f = [i \in 0..width |->
                       IF i = 0 THEN 0 ELSE capped(f[i - 1] * 256 + bytes[i])]
<1>9. \E f : runs(f)
  <2>1. CASE width = 1
    <3> DEFINE f == [i \in 0..1 |-> IF i = 0 THEN 0 ELSE n]
    <3>1. bytes[1] = n /\ capped(0 * 256 + n) = n
      BY <1>1, <1>2, <1>4, <1>6, <2>1, SMT
    <3>2. runs(f)
      BY <2>1, <3>1, SMT
    <3> QED BY <3>2
  <2>2. CASE width = 2
    <3> DEFINE f == [i \in 0..2 |-> IF i = 0 THEN 0 ELSE IF i = 1 THEN h ELSE n]
    <3>1. bytes[1] = h /\ bytes[2] = c /\ capped(0 * 256 + h) = h /\ capped(h * 256 + c) = n
      BY <1>1, <1>2, <1>4, <1>5, <1>6, <2>2, SMT
    <3>2. runs(f)
      BY <2>2, <3>1, SMT
    <3> QED BY <3>2
  <2>3. CASE width = 4
    <3> DEFINE f == [i \in 0..4 |-> IF i = 0 THEN 0 ELSE IF i = 1 THEN 0
                                    ELSE IF i = 2 THEN a ELSE IF i = 3 THEN h ELSE n]
    <3>1. /\ bytes[1] = 0 /\ bytes[2] = a /\ bytes[3] = b /\ bytes[4] = c
          /\ capped(0 * 256 + 0) = 0 /\ capped(0 * 256 + a) = a
          /\ capped(a * 256 + b) = h /\ capped(h * 256 + c) = n
      BY <1>2, <1>4, <1>5, <1>6, <2>3, SMT
    <3>2. runs(f)
      BY <2>3, <3>1, SMT
    <3> QED BY <3>2
  <2> QED BY <2>1, <2>2, <2>3
<1>10. runs(upto)
  <2>1. upto = CHOOSE f : runs(f)
    BY <1>7
  <2> HIDE DEF upto, runs
  <2> QED BY <1>9, <2>1, Zenon
<1> HIDE DEF upto
<1>11. /\ upto[0] = 0
       /\ \A i \in 1..width : upto[i] = capped(upto[i - 1] * 256 + bytes[i])
  <2>1. \A i \in 0..width : upto[i] =
           IF i = 0 THEN 0 ELSE capped(upto[i - 1] * 256 + bytes[i])
    <3> HIDE DEF capped
    <3> QED BY <1>10, Zenon
  <2> HIDE DEF capped
  <2> QED BY <2>1, SMT
<1>12. upto[width] = n
  <2>1. CASE width = 1
    <3>1. bytes[1] = n
      BY <1>1, <1>4, <1>6, <2>1, SMT
    <3> QED BY <1>2, <1>11, <2>1, <3>1, SMT
  <2>2. CASE width = 2
    <3>1. bytes[1] = h /\ bytes[2] = c
      BY <1>1, <1>4, <1>5, <1>6, <2>2, SMT
    <3>2. upto[1] = h
      BY <1>2, <1>5, <1>11, <2>2, <3>1, SMT
    <3> QED BY <1>2, <1>4, <1>5, <1>11, <2>2, <3>1, <3>2, SMT
  <2>3. CASE width = 4
    <3>1. bytes[1] = 0 /\ bytes[2] = a /\ bytes[3] = b /\ bytes[4] = c
      BY <1>6, <2>3, SMT
    <3>2. upto[1] = 0
      BY <1>2, <1>11, <2>3, <3>1, SMT
    <3>3. upto[2] = a
      BY <1>2, <1>5, <1>11, <2>3, <3>1, <3>2, SMT
    <3>4. upto[3] = h
      <4>1. upto[3] = capped(a * 256 + b)
        BY <1>11, <2>3, <3>1, <3>3, SMT
      <4>2. a * 256 + b = h
        BY <1>4, <1>5, SMT
      <4> QED BY <1>2, <1>5, <4>1, <4>2, SMT
    <3>5. upto[4] = capped(h * 256 + c)
      BY <1>11, <2>3, <3>1, <3>4, SMT
    <3>6. h * 256 + c = n
      BY <1>4, <1>5, SMT
    <3> QED BY <1>2, <2>3, <3>5, <3>6, SMT
  <2> QED BY <2>1, <2>2, <2>3
<1> QED BY <1>7, <1>8, <1>12 DEF bytes

\* A string with no NUL in it is read whole.
LEMMA StringRead ==
  ASSUME NEW s \in Seq(1..255), NEW rest \in Seq(Byte), NEW n, n = Len(s)
  PROVE  decode_str(s \o rest, n) = Read(String(s), rest)
<1>1. s \in Seq(Byte)
  BY DEF Byte
<1>2. CString(s) = s
  <2>1. \A i \in DOMAIN s : s[i] # 0
    <3>1. \A i \in 1..Len(s) : s[i] \in 1..255
      BY ElementOfSeq
    <3>2. DOMAIN s = 1..Len(s)
      BY LenProperties
    <3>3. ASSUME NEW i \in DOMAIN s PROVE s[i] # 0
      <4>1. PICK char : char = s[i]
        OBVIOUS
      <4>2. char \in 1..255
        BY <3>1, <3>2, <4>1, Zenon
      <4>3. char # 0
        BY <4>2
      <4> QED BY <4>1, <4>3, Zenon
    <3> QED BY <3>3
  <2> QED BY <2>1 DEF CString
<1>3. /\ ~Short(s \o rest, n)
      /\ mr_read(s \o rest, n) = s
      /\ Beyond(s \o rest, n) = rest
  BY <1>1, FrontRead
<1> QED BY <1>2, <1>3 DEF decode_str

\* Whatever text encode_str packs, whichever of the four headers its length
\* calls for: decode_value reads this text, and no byte of what follows.  (A text
\* with a NUL in it would end there: C strings.)
THEOREM StringsArrive ==
  ASSUME NEW s \in Seq(1..255), Len(s) < LengthCap, NEW rest \in Seq(Byte)
  PROVE  decode_scalar(encode_str(s) \o rest) = Read(String(s), rest)
<1>1. PICK n \in Nat : n = Len(s)
  OBVIOUS
<1>2. s \in Seq(Byte) /\ s \o rest \in Seq(Byte)
  BY DEF Byte
<1>3. decode_str(s \o rest, n) = Read(String(s), rest)
  BY <1>1, StringRead
<1>4. CASE n <= 31
  <2>1. encode_str(s) = <<160 + n>> \o s
    BY <1>1, <1>4 DEF encode_str, Header
  <2>2. 160 + n \in 160..191 /\ 160 + n \in Byte /\ (160 + n) - 160 = n
    BY <1>4 DEF Byte
  <2>4. (<<160 + n>> \o s) \o rest = <<160 + n>> \o (s \o rest)
    BY <1>2, <2>2, TagAhead
  <2>5. decode_scalar(<<160 + n>> \o (s \o rest)) = Scalar(160 + n, s \o rest)
    BY <1>2, <2>2, TagFirst
  <2>6. Scalar(160 + n, s \o rest) = decode_str(s \o rest, n)
    <3>1. PICK tag : tag = 160 + n
      OBVIOUS
    <3>2. tag \in 160..191 /\ tag - 160 = n
      BY <2>2, <3>1
    <3>3. Scalar(tag, s \o rest) = decode_str(s \o rest, tag - 160)
      BY <3>2, ScalarCases
    <3> QED BY <3>1, <3>2, <3>3
  <2> QED BY <1>3, <2>1, <2>4, <2>5, <2>6
<1>5. CASE ~(n <= 31)
  <2> DEFINE widths == {w \in {Str[t] : t \in DOMAIN Str} : w = 4 \/ n < 256^w}
             width == Min(widths)
             tag == TagOf(Str, width)
             header == BigEndian(n, width)
  <2>1. encode_str(s) = (<<tag>> \o header) \o s
    BY <1>1, <1>5 DEF encode_str, Header
  <2>2. {Str[t] : t \in DOMAIN Str} = {1, 2, 4}
    <3>1. DOMAIN Str = {217, 218, 219}
      BY TagWidths
    <3> QED BY <3>1, TagWidths
  <2>3. width \in {1, 2, 4} /\ (width = 4 \/ n < 256^width)
    <3>1. \E m \in widths : \A y \in widths : m <= y
      <4>1. 4 \in widths /\ widths \subseteq {1, 2, 4}
        BY <2>2
      <4> HIDE DEF widths
      <4> QED BY <4>1
    <3>2. widths \subseteq Nat
      <4>1. widths \subseteq {1, 2, 4}
        BY <2>2
      <4> HIDE DEF widths
      <4> QED BY <4>1
    <3>3. width \in widths
      <4> HIDE DEF widths
      <4> QED BY <3>1, <3>2, MinIs
    <3> QED BY <2>2, <3>3
  <2> HIDE DEF width
  <2>4. tag \in DOMAIN Str /\ Str[tag] = width /\ tag \in Byte
    <3>1. tag \in DOMAIN Str /\ Str[tag] = width
      BY <2>3, TagsFound
    <3> QED BY <3>1, TagWidths DEF Byte
  <2>5. header \in Seq(Byte) /\ Len(header) = width /\ Length(header) = n
    <3>1. n < LengthCap
      BY <1>1, Zenon
    <3> QED BY <2>3, <3>1, LengthBack, Zenon
  <2> HIDE DEF tag, header
  <2>6. /\ ((<<tag>> \o header) \o s) \o rest = <<tag>> \o (header \o (s \o rest))
        /\ header \o (s \o rest) \in Seq(Byte)
    <3>1. <<tag>> \in Seq(Byte) /\ <<tag>> \o header \in Seq(Byte)
      BY <2>4, <2>5
    <3>2. ((<<tag>> \o header) \o s) \o rest = (<<tag>> \o header) \o (s \o rest)
      <4>1. PICK front : front = <<tag>> \o header
        OBVIOUS
      <4>2. (front \o s) \o rest = front \o (s \o rest)
        BY <1>2, <3>1, <4>1, ConcatAssociative
      <4> QED BY <4>1, <4>2
    <3>3. (<<tag>> \o header) \o (s \o rest) = <<tag>> \o (header \o (s \o rest))
      BY <1>2, <2>4, <2>5, TagAhead
    <3>4. header \o (s \o rest) \in Seq(Byte)
      BY <1>2, <2>5, ConcatProperties
    <3> QED BY <3>2, <3>3, <3>4
  <2>7. decode_scalar(<<tag>> \o (header \o (s \o rest))) = Scalar(tag, header \o (s \o rest))
    BY <2>4, <2>6, TagFirst
  <2>8. Scalar(tag, header \o (s \o rest)) = decode_long_str(header \o (s \o rest), width)
    BY <2>4, ScalarCases
  <2>9. decode_long_str(header \o (s \o rest), width) = decode_str(s \o rest, n)
    <3>1. /\ ~Short(header \o (s \o rest), width)
          /\ mr_read(header \o (s \o rest), width) = header
          /\ Beyond(header \o (s \o rest), width) = s \o rest
      BY <1>2, <2>5, FrontRead
    <3> QED BY <2>5, <3>1 DEF decode_long_str
  <2> QED BY <1>3, <2>1, <2>6, <2>7, <2>8, <2>9
<1> QED BY <1>4, <1>5

(***************************************************************************)
(* Base64 in a string of MessagePack                                       *)
(***************************************************************************)

LEMMA BitIsBit ==
  ASSUME NEW data \in Seq(Byte), NEW i \in Nat
  PROVE  Bit(data, i) \in 0..1
<1>1. CASE i >= 8 * Len(data)
  BY <1>1 DEF Bit
<1>2. CASE ~(i >= 8 * Len(data))
  <2>1. PICK n \in Nat : n = Len(data)
    OBVIOUS
  <2>2. PICK k, b : k = i \div 8 + 1 /\ b = 7 - (i % 8)
    OBVIOUS
  <2>3. k \in 1..n /\ b \in 0..7
    BY <1>2, <2>1, <2>2
  <2>4. PICK d \in 0..255 : d = data[k]
    <3>1. \A m \in 1..n : data[m] \in Byte
      BY <2>1, ElementOfSeq
    <3>2. data[k] \in 0..255
      BY <2>3, <3>1, Zenon DEF Byte
    <3> QED BY <3>2, Zenon
  <2>5. PICK p \in Nat : p = 2^b /\ p > 0
    <3>1. /\ 2^0 \in Nat /\ 2^0 > 0 /\ 2^1 \in Nat /\ 2^1 > 0
          /\ 2^2 \in Nat /\ 2^2 > 0 /\ 2^3 \in Nat /\ 2^3 > 0
          /\ 2^4 \in Nat /\ 2^4 > 0 /\ 2^5 \in Nat /\ 2^5 > 0
          /\ 2^6 \in Nat /\ 2^6 > 0 /\ 2^7 \in Nat /\ 2^7 > 0
      BY Powers
    <3>2. b = 0 \/ b = 1 \/ b = 2 \/ b = 3 \/ b = 4 \/ b = 5 \/ b = 6 \/ b = 7
      BY <2>3
    <3>3. 2^b \in Nat /\ 2^b > 0
      BY <3>1, <3>2, Zenon
    <3> QED BY <3>3, Zenon
  <2>6. Bit(data, i) = (d \div p) % 2
    <3>1. Bit(data, i) = (data[i \div 8 + 1] \div 2^(7 - (i % 8))) % 2
      BY <1>2 DEF Bit
    <3>2. Bit(data, i) = (data[k] \div 2^b) % 2
      BY <2>2, <3>1
    <3> QED BY <2>4, <2>5, <3>2, Zenon
  <2>7. PICK q : q = d \div p
    OBVIOUS
  <2>8. q \in Int
    BY <2>4, <2>5, <2>7
  <2>9. q % 2 \in 0..1
    BY <2>8
  <2> QED BY <2>6, <2>7, <2>9, Zenon
<1> QED BY <1>1, <1>2

LEMMA DigitIsDigit ==
  ASSUME NEW data \in Seq(Byte), NEW k \in Nat
  PROVE  Digit(data, k) \in 0..63
<1>1. Digit(data, k) = 32 * Bit(data, 6 * k + 0) + 16 * Bit(data, 6 * k + 1)
        + 8 * Bit(data, 6 * k + 2) + 4 * Bit(data, 6 * k + 3)
        + 2 * Bit(data, 6 * k + 4) + Bit(data, 6 * k + 5)
  BY Zenon DEF Digit
<1>2. ASSUME NEW m \in 0..5 PROVE Bit(data, 6 * k + m) \in 0..1
  <2>1. PICK i \in Nat : i = 6 * k + m
    OBVIOUS
  <2>2. Bit(data, i) \in 0..1
    BY BitIsBit
  <2> QED BY <2>1, <2>2, Zenon
<1> DEFINE bit(m) == Bit(data, 6 * k + m)
<1>3. Digit(data, k) = 32 * bit(0) + 16 * bit(1) + 8 * bit(2) + 4 * bit(3) + 2 * bit(4) + bit(5)
  BY <1>1, Zenon
<1>4. \A m \in 0..5 : bit(m) \in 0..1
  BY <1>2, Zenon
<1> HIDE DEF bit
<1>5. PICK b0 \in 0..1 : b0 = bit(0)
  BY <1>4
<1>6. PICK b1 \in 0..1 : b1 = bit(1)
  BY <1>4
<1>7. PICK b2 \in 0..1 : b2 = bit(2)
  BY <1>4
<1>8. PICK b3 \in 0..1 : b3 = bit(3)
  BY <1>4
<1>9. PICK b4 \in 0..1 : b4 = bit(4)
  BY <1>4
<1>10. PICK b5 \in 0..1 : b5 = bit(5)
  BY <1>4
<1>11. Digit(data, k) = 32 * b0 + 16 * b1 + 8 * b2 + 4 * b3 + 2 * b4 + b5
  BY <1>3, <1>5, <1>6, <1>7, <1>8, <1>9, <1>10, Zenon
<1>12. 32 * b0 + 16 * b1 + 8 * b2 + 4 * b3 + 2 * b4 + b5 \in 0..63
  BY SMT
<1> QED BY <1>11, <1>12, Zenon

\* No letter of Base64 is a NUL.
LEMMA EncodedIsText ==
  ASSUME NEW data \in Seq(Byte)
  PROVE  Letters(data) \o Padding(data) \in Seq(1..255)
<1>1. PICK n, L, P : /\ n \in Nat /\ L \in Nat /\ P \in Nat
                     /\ n = Len(data) /\ L = (8 * n + 5) \div 6 /\ P = (3 - (n % 3)) % 3
  <2>1. \A k \in Nat : (8 * k + 5) \div 6 \in Nat /\ (3 - (k % 3)) % 3 \in Nat
    OBVIOUS
  <2> QED BY <2>1
<1>2. /\ Letters(data) = [k \in 1..L |-> Letter(Digit(data, k - 1))]
      /\ Padding(data) = [i \in 1..P |-> 61]
  BY <1>1 DEF Letters, Padding
<1>3. ASSUME NEW v \in 0..63 PROVE Letter(v) \in 1..255
  <2>1. Letter(v) \in Byte /\ DTAB(Letter(v)) = v
    BY LetterIsRead
  <2>2. DTAB(0) = -1
    BY DEF DTAB
  <2>3. Letter(v) # 0
    BY <2>1, <2>2
  <2>4. PICK char : char = Letter(v)
    OBVIOUS
  <2>5. char \in 0..255 /\ char # 0
    BY <2>1, <2>3, <2>4 DEF Byte
  <2>6. char \in 1..255
    BY <2>5
  <2> QED BY <2>4, <2>6
<1>4. ASSUME NEW k \in 1..L PROVE Letter(Digit(data, k - 1)) \in 1..255
  <2>1. PICK j \in Nat : j = k - 1
    BY <1>1
  <2>2. Digit(data, j) \in 0..63
    BY DigitIsDigit
  <2> QED BY <1>3, <2>1, <2>2
<1>5. Letters(data) \in Seq(1..255)
  BY <1>1, <1>2, <1>4
<1>6. Padding(data) \in Seq(1..255)
  BY <1>1, <1>2
<1> QED BY <1>5, <1>6, ConcatProperties

\* The data of a chunk as a client sends it, in Base64 in a string of
\* MessagePack, and as upload_registry.c gets it: the string arrives, and what
\* b64_decode makes of it are the bytes that were sent.
THEOREM DataArrives ==
  ASSUME NEW data \in Seq(Byte), NEW rest \in Seq(Byte), NEW encoded,
         encoded = Letters(data) \o Padding(data), Len(encoded) < LengthCap
  PROVE  /\ decode_scalar(encode_str(encoded) \o rest) = Read(String(encoded), rest)
         /\ b64_decode(String(encoded).chars) = data
<1>1. encoded \in Seq(1..255)
  BY EncodedIsText
<1>2. decode_scalar(encode_str(encoded) \o rest) = Read(String(encoded), rest)
  BY <1>1, StringsArrive
<1>3. String(encoded).chars = encoded
  BY DEF String
<1> QED BY <1>2, <1>3, RoundTrip
=============================================================================
