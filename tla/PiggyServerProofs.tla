-------------------------- MODULE PiggyServerProofs --------------------------
(***************************************************************************)
(* For any number of workers and clients: no context is used after it was  *)
(* deleted, but for the receiver's.                                        *)
(*                                                                         *)
(* A client has one receive at most: posted, in the port or in a worker's  *)
(* hands.  Only the worker that holds it deletes the context, and only     *)
(* when it is listed; until then the worker that accepted the client has   *)
(* it in its hands, and there is at most one such worker.                  *)
(***************************************************************************)
EXTENDS PiggyServer, FiniteSetTheorems, TLAPS

InPort == {port[i] : i \in DOMAIN port}

Single == {Completion(op, c) : op \in {"accept", "receive"}, c \in Clients}

(* What a worker has in its hands goes with where it is. *)
HandsInv ==
  \A w \in Workers :
    /\ pc[w] \in AcceptSteps => item[w].op = "accept"
    /\ pc[w] \in {"enter", "sending", "receive"} => item[w].op = "receive"
    /\ Busy(w) /\ item[w].op # "send" => item[w] \in Single
    /\ Busy(w) /\ item[w].op = "send" => item[w].client = receiver /\ receiver # None

PortInv ==
  /\ \A x \in InPort : x = Exit \/ x \in Single \/ x = Completion("send", receiver)
  /\ (\E x \in InPort : x.op = "send") \/ sends > 0 => receiver # None

Unique(s) == \A i, j \in DOMAIN s : s[i] = s[j] /\ s[i] \in Single => i = j

(* Accepts and receives of a client are in one place. *)
SingleInv ==
  /\ Unique(port)
  /\ \A v, w \in Workers : Busy(v) /\ Busy(w) /\ item[v] = item[w] /\ item[v] \in Single => v = w
  /\ \A w \in Workers : Busy(w) /\ item[w] \in Single => item[w] \notin InPort
  /\ \A c \in receiving :
       /\ Completion("receive", c) \notin InPort
       /\ \A w \in Workers : Busy(w) => item[w] # Completion("receive", c)

Received(c) ==
  \/ c \in receiving
  \/ Completion("receive", c) \in InPort
  \/ \E w \in Workers : Busy(w) /\ item[w] = Completion("receive", c)

(* How far a client has come. *)
ClientInv(c) ==
  /\ \A w \in Workers : pc[w] \in AcceptSteps /\ item[w].client = c => context[c] # "none"
  /\ Completion("accept", c) \in InPort => context[c] = "none"
  /\ \A w \in Workers : pc[w] = "taken" /\ item[w] = Completion("accept", c) => context[c] = "none"
  /\ \A w \in Workers : pc[w] \in {"associated", "register"} /\ item[w].client = c =>
       context[c] = "live" /\ ~Received(c) /\ c \notin listed /\ receiver # c
  /\ \A w \in Workers : pc[w] = "add" /\ item[w].client = c =>
       context[c] = "live" /\ c \notin listed /\ receiver # c
  /\ Received(c) \/ c \in listed => context[c] = "live" /\ receiver # c
  /\ receiver = c => context[c] # "none" /\ (~released => context[c] = "live")

IInv ==
  /\ TypeOK
  /\ HandsInv
  /\ PortInv
  /\ SingleInv
  /\ \A c \in Clients : ClientInv(c)
-----------------------------------------------------------------------------
(* The port. *)

LEMMA CompletionFacts ==
  /\ \A op, c : Completion(op, c).op = op /\ Completion(op, c).client = c
  /\ \A op, c, q, d : Completion(op, c) = Completion(q, d) <=> op = q /\ c = d
  /\ \A x \in Single : x.op \in {"accept", "receive"} /\ x.client \in Clients
                       /\ x = Completion(x.op, x.client)
  /\ \A c \in Clients : Completion("accept", c) \in Single
                        /\ Completion("receive", c) \in Single
                        /\ Completion("send", c) \notin Single
  /\ Exit \notin Single /\ Exit.op = "exit"
  /\ Single \subseteq Completions /\ Exit \in Completions
  /\ \A c \in Clients : Completion("send", c) \in Completions
<1>1. \A op, c : Completion(op, c).op = op /\ Completion(op, c).client = c
  BY DEF Completion
<1>2. \A op, c, q, d : Completion(op, c) = Completion(q, d) <=> op = q /\ c = d
  BY <1>1
<1>3. \A op \in {"accept", "receive", "send", "exit"}, c \in Clients \cup {None} :
        Completion(op, c) \in Completions
  BY DEF Completion, Completions
<1> QED
  BY <1>1, <1>2, <1>3 DEF Single, Exit

LEMMA AppendFacts ==
  ASSUME port \in Seq(Completions), NEW x \in Completions, port' = Append(port, x)
  PROVE  /\ port' \in Seq(Completions)
         /\ InPort' = InPort \cup {x}
         /\ Unique(port) /\ (x \in Single => x \notin InPort) => Unique(port')
<1>1. /\ port' \in Seq(Completions)
      /\ DOMAIN port' = 1 .. Len(port) + 1
      /\ DOMAIN port = 1 .. Len(port)
      /\ Len(port) \in Nat
      /\ \A i \in 1 .. Len(port) : port'[i] = port[i]
      /\ port'[Len(port) + 1] = x
  OBVIOUS
<1>2. InPort' = InPort \cup {x}
  BY <1>1 DEF InPort
<1>3. ASSUME Unique(port), x \in Single => x \notin InPort
      PROVE  Unique(port')
  BY <1>1, <1>3 DEF Unique, InPort
<1> QED
  BY <1>1, <1>2, <1>3

LEMMA TailFacts ==
  ASSUME port \in Seq(Completions), port # << >>, port' = Tail(port), Unique(port)
  PROVE  /\ port' \in Seq(Completions)
         /\ Head(port) \in InPort /\ Head(port) \in Completions
         /\ InPort' \subseteq InPort
         /\ Unique(port')
         /\ Head(port) \in Single => Head(port) \notin InPort'
<1>1. /\ port' \in Seq(Completions)
      /\ DOMAIN port' = 1 .. Len(port) - 1
      /\ DOMAIN port = 1 .. Len(port)
      /\ Len(port) \in Nat \ {0}
      /\ \A i \in 1 .. Len(port) - 1 : port'[i] = port[i + 1]
      /\ Head(port) = port[1]
  OBVIOUS
<1>2. Head(port) \in InPort /\ Head(port) \in Completions
  BY <1>1 DEF InPort
<1>3. \A i \in DOMAIN port' : i + 1 \in DOMAIN port /\ port'[i] = port[i + 1] /\ i + 1 # 1
  BY <1>1
<1>4. InPort' \subseteq InPort
  BY <1>3 DEF InPort
<1>5. Unique(port')
  <2> SUFFICES ASSUME NEW i \in DOMAIN port', NEW j \in DOMAIN port',
                      port'[i] = port'[j], port'[i] \in Single
               PROVE  i = j
    BY DEF Unique
  <2>1. i + 1 = j + 1
    BY <1>3 DEF Unique
  <2> QED
    BY <1>1, <2>1
<1>6. ASSUME Head(port) \in Single PROVE Head(port) \notin InPort'
  <2> SUFFICES ASSUME NEW i \in DOMAIN port', port'[i] = Head(port) PROVE FALSE
    BY DEF InPort
  <2>1. 1 \in DOMAIN port
    BY <1>1
  <2>2. i + 1 = 1
    BY <1>1, <1>3, <1>6, <2>1 DEF Unique
  <2> QED
    BY <1>3, <2>2
<1> QED
  BY <1>1, <1>2, <1>4, <1>5, <1>6

LEMMA ConcatFacts ==
  ASSUME NEW s \in Seq(Completions), NEW t \in Seq(Completions)
  PROVE  /\ s \o t \in Seq(Completions)
         /\ DOMAIN (s \o t) = 1 .. Len(s) + Len(t)
         /\ \A i \in 1 .. Len(s) : (s \o t)[i] = s[i]
         /\ \A i \in Len(s) + 1 .. Len(s) + Len(t) : (s \o t)[i] = t[i - Len(s)]
  OBVIOUS

LEMMA ExitsFacts ==
  ASSUME port \in Seq(Completions), NEW n \in Nat, port' = port \o Exits(n), Unique(port)
  PROVE  /\ port' \in Seq(Completions)
         /\ InPort \subseteq InPort' /\ InPort' \subseteq InPort \cup {Exit}
         /\ Unique(port')
<1> DEFINE e == Exits(n)
<1>1. e \in Seq(Completions) /\ Len(e) = n /\ \A i \in 1 .. n : e[i] = Exit
  BY CompletionFacts DEF Exits
<1>2. port' = port \o e
  OBVIOUS
<1> HIDE DEF e
<1>3. Len(port) \in Nat /\ DOMAIN port = 1 .. Len(port)
  OBVIOUS
<1>4. /\ port \o e \in Seq(Completions)
      /\ DOMAIN (port \o e) = 1 .. Len(port) + n
      /\ \A i \in 1 .. Len(port) : (port \o e)[i] = port[i]
      /\ \A i \in Len(port) + 1 .. Len(port) + n : (port \o e)[i] = e[i - Len(port)]
  BY <1>1, ConcatFacts
<1>5. /\ port' \in Seq(Completions)
      /\ DOMAIN port' = 1 .. Len(port) + n
      /\ DOMAIN port = 1 .. Len(port)
      /\ Len(port) \in Nat
      /\ \A i \in 1 .. Len(port) : port'[i] = port[i]
      /\ \A i \in Len(port) + 1 .. Len(port) + n : port'[i] = e[i - Len(port)]
  BY <1>2, <1>3, <1>4
<1>6. \A i \in DOMAIN port' : (i \in DOMAIN port /\ port'[i] = port[i]) \/ port'[i] = Exit
  BY <1>1, <1>5
<1>7. InPort \subseteq InPort' /\ InPort' \subseteq InPort \cup {Exit}
  BY <1>5, <1>6 DEF InPort
<1>8. Unique(port')
  BY <1>6, CompletionFacts DEF Unique
<1> QED
  BY <1>5, <1>7, <1>8
-----------------------------------------------------------------------------
(* A worker goes on with what it has in its hands. *)

Steps == {"loop", "port", "taken", "enter", "sending", "receive", "ended"} \cup AcceptSteps

LEMMA GoFacts ==
  ASSUME TypeOK, NEW w \in Workers, NEW step \in Steps, Go(w, step)
  PROVE  /\ pc' \in [Workers -> Steps]
         /\ pc'[w] = step
         /\ \A v \in Workers \ {w} : pc'[v] = pc[v]
  BY DEF TypeOK, Go, Steps, AcceptSteps

LEMMA MoveKeeps ==
  ASSUME IInv, NEW w \in Workers, Busy(w), NEW step, Go(w, step), UNCHANGED <<item, port>>,
         \/ step \in {"loop", "ended"}
         \/ step \in AcceptSteps /\ item[w].op = "accept"
         \/ step \in {"enter", "sending", "receive"} /\ item[w].op = "receive",
         receiver # None => receiver' = receiver,
         sends' > 0 => receiver' # None,
         \A c \in receiving' \ receiving :
           /\ Completion("receive", c) \notin InPort
           /\ \A v \in Workers : Busy(v)' => item[v] # Completion("receive", c)
  PROVE  /\ pc' \in [Workers -> Steps]
         /\ pc'[w] = step
         /\ \A v \in Workers \ {w} : pc'[v] = pc[v]
         /\ \A v \in Workers : Busy(v)' => Busy(v)
         /\ HandsInv' /\ PortInv' /\ SingleInv'
<1>1. step \in Steps
  BY DEF Steps, AcceptSteps
<1>2. /\ pc' \in [Workers -> Steps]
      /\ pc'[w] = step
      /\ \A v \in Workers \ {w} : pc'[v] = pc[v]
  BY <1>1, GoFacts DEF IInv
<1>3. \A v \in Workers : Busy(v)' => Busy(v)
  BY <1>2 DEF Busy
<1>4. HandsInv'
  <2> SUFFICES ASSUME NEW v \in Workers
               PROVE  /\ pc'[v] \in AcceptSteps => item'[v].op = "accept"
                      /\ pc'[v] \in {"enter", "sending", "receive"} => item'[v].op = "receive"
                      /\ Busy(v)' /\ item'[v].op # "send" => item'[v] \in Single
                      /\ Busy(v)' /\ item'[v].op = "send" =>
                           item'[v].client = receiver' /\ receiver' # None
    BY DEF HandsInv, Single, Completion
  <2>1. CASE v = w
    BY <1>2, <1>3, <2>1 DEF IInv, HandsInv, AcceptSteps
  <2>2. CASE v # w
    BY <1>2, <1>3, <2>2 DEF IInv, HandsInv
  <2> QED
    BY <2>1, <2>2
<1>5. PortInv'
  <2>1. InPort' = InPort
    BY DEF InPort
  <2>2. \A x \in InPort : x.op = "send" => receiver # None
    BY DEF IInv, PortInv
  <2>3. ASSUME NEW x \in InPort
        PROVE  x = Exit \/ x \in Single \/ x = Completion("send", receiver')
    BY <2>2, CompletionFacts DEF IInv, PortInv
  <2>4. (\E x \in InPort : x.op = "send") \/ sends' > 0 => receiver' # None
    BY <2>2
  <2>5. Single' = Single
    BY DEF Single, Completion
  <2> QED
    BY <2>1, <2>3, <2>4, <2>5 DEF PortInv, Exit, Completion
<1>6. SingleInv'
  <2>1. InPort' = InPort /\ Unique(port') /\ Single' = Single
    BY DEF InPort, IInv, SingleInv, Single, Completion, Unique
  <2>2. \A u, v \in Workers : Busy(u)' /\ Busy(v)' /\ item'[u] = item'[v] /\ item'[u] \in Single
          => u = v
    BY <1>3 DEF IInv, SingleInv
  <2>3. \A v \in Workers : Busy(v)' /\ item'[v] \in Single => item'[v] \notin InPort
    BY <1>3 DEF IInv, SingleInv
  <2>4. ASSUME NEW c \in receiving'
        PROVE  /\ Completion("receive", c) \notin InPort
               /\ \A v \in Workers : Busy(v)' => item'[v] # Completion("receive", c)
    BY <1>3 DEF IInv, SingleInv
  <2> QED
    BY <2>1, <2>2, <2>3, <2>4 DEF SingleInv, Unique, Completion
<1> QED
  BY <1>2, <1>3, <1>4, <1>5, <1>6

LEMMA TypeStep ==
  ASSUME pc' \in [Workers -> Steps], item' \in [Workers -> Completions],
         port' \in Seq(Completions), accepts' \in Nat,
         context' \in [Clients -> {"none", "live", "freed"}],
         listed' \subseteq Clients, receiving' \subseteq Clients, sends' \in 0 .. MaxSends,
         receiver' \in Clients \cup {None}, lock' \in Workers \cup {None},
         stop' \in {"run", "waiting", "returned"}, left' \in BOOLEAN, failed' \in Nat,
         released' \in BOOLEAN
  PROVE  TypeOK'
  BY DEF TypeOK, Steps

LEMMA TypeParts ==
  ASSUME TypeOK
  PROVE  /\ pc \in [Workers -> Steps] /\ item \in [Workers -> Completions]
         /\ port \in Seq(Completions) /\ accepts \in Nat
         /\ context \in [Clients -> {"none", "live", "freed"}]
         /\ listed \subseteq Clients /\ receiving \subseteq Clients /\ sends \in 0 .. MaxSends
         /\ receiver \in Clients \cup {None} /\ lock \in Workers \cup {None}
         /\ stop \in {"run", "waiting", "returned"} /\ left \in BOOLEAN /\ failed \in Nat
         /\ released \in BOOLEAN
  BY DEF TypeOK, Steps

(* The worker is through with the accept, or goes on with the receive. *)
LEMMA ClientStays ==
  ASSUME IInv, NEW w \in Workers, NEW step \in {"loop", "ended", "enter", "sending", "receive"},
         pc'[w] = step, \A v \in Workers \ {w} : pc'[v] = pc[v],
         \A v \in Workers : Busy(v)' => Busy(v),
         UNCHANGED <<item, port, context, listed, receiving, receiver, released>>
  PROVE  \A c \in Clients : ClientInv(c)'
<1> SUFFICES ASSUME NEW c \in Clients PROVE ClientInv(c)'
  OBVIOUS
<1>1. ClientInv(c)
  BY DEF IInv
<1>2. InPort' = InPort
  BY DEF InPort
<1>3. Received(c)' => Received(c)
  BY <1>2 DEF Received, Completion
<1>4. \A v \in Workers : pc'[v] \in AcceptSteps \cup {"taken"} => pc'[v] = pc[v]
  BY DEF AcceptSteps
<1> QED
  BY <1>1, <1>2, <1>3, <1>4 DEF ClientInv, AcceptSteps, Completion

LEMMA HandleErrorFailsInv ==
  ASSUME IInv, NEW w \in Workers, HandleErrorFails(w)
  PROVE  IInv'
<1>1. /\ Busy(w) /\ Go(w, "ended")
      /\ UNCHANGED <<item, port, sockets, lock, stop, left, released>>
      /\ failed' \in Nat
  BY TypeParts DEF HandleErrorFails, Busy, AcceptLost, IInv
<1>2. UNCHANGED <<accepts, context, listed, receiving, sends, receiver>>
  BY <1>1 DEF sockets
<1>3. sends' > 0 => receiver' # None
  BY <1>2 DEF IInv, PortInv
<1>4. /\ pc' \in [Workers -> Steps] /\ pc'[w] = "ended"
      /\ \A v \in Workers \ {w} : pc'[v] = pc[v]
      /\ \A v \in Workers : Busy(v)' => Busy(v)
      /\ HandsInv' /\ PortInv' /\ SingleInv'
  BY <1>1, <1>2, <1>3, MoveKeeps
<1>5. TypeOK'
  BY <1>1, <1>2, <1>4, TypeParts, TypeStep DEF IInv
<1> QED
  BY <1>1, <1>2, <1>4, <1>5, ClientStays DEF IInv

LEMMA DoReceiveInv ==
  ASSUME IInv, NEW w \in Workers, DoReceive(w)
  PROVE  IInv'
<1>1. /\ Busy(w) /\ Go(w, "enter") /\ item[w].op = "receive"
      /\ UNCHANGED <<item, port, lock, stop, left, failed, released>>
      /\ UNCHANGED <<accepts, context, listed, receiving, sends, receiver>>
  BY DEF DoReceive, Taken, Busy, sockets, history
<1>2. sends' > 0 => receiver' # None
  BY <1>1 DEF IInv, PortInv
<1>3. /\ pc' \in [Workers -> Steps] /\ pc'[w] = "enter"
      /\ \A v \in Workers \ {w} : pc'[v] = pc[v]
      /\ \A v \in Workers : Busy(v)' => Busy(v)
      /\ HandsInv' /\ PortInv' /\ SingleInv'
  BY <1>1, <1>2, MoveKeeps
<1>4. TypeOK'
  BY <1>1, <1>3, TypeParts, TypeStep DEF IInv
<1> QED
  BY <1>1, <1>3, <1>4, ClientStays DEF IInv

(* The steps of _PostSend. *)
LEMMA SendInv ==
  ASSUME IInv, NEW w \in Workers, EnterSend(w) \/ PostSendFails(w) \/ PostSend(w)
  PROVE  IInv'
<1>1. /\ Busy(w) /\ item[w].op = "receive"
      /\ UNCHANGED <<item, port, accepts, context, listed, receiving, receiver, stop, failed,
                     released>>
  BY DEF EnterSend, PostSendFails, PostSend, Busy, sockets, history, IInv, HandsInv
<1>2. /\ sends' \in 0 .. MaxSends /\ left' \in BOOLEAN /\ lock' \in Workers \cup {None}
      /\ sends' > 0 => receiver' # None
  <2>1. sends \in 0 .. MaxSends /\ (sends > 0 => receiver # None) /\ left \in BOOLEAN
        /\ lock \in Workers \cup {None}
    BY TypeParts DEF IInv, PortInv
  <2>2. MaxSends \in Nat
    BY PiggyAssumption
  <2>3. CASE EnterSend(w) \/ PostSendFails(w)
    BY <2>1, <2>3 DEF EnterSend, PostSendFails, sockets, history
  <2>4. CASE PostSend(w)
    BY <2>1, <2>2, <2>4 DEF PostSend, history
  <2> QED
    BY <2>3, <2>4
<1>3. \E step \in {"sending", "receive"} : Go(w, step)
  BY DEF EnterSend, PostSendFails, PostSend
<1>4. PICK step \in {"sending", "receive"} : Go(w, step)
  BY <1>3
<1>5. /\ pc' \in [Workers -> Steps] /\ pc'[w] = step
      /\ \A v \in Workers \ {w} : pc'[v] = pc[v]
      /\ \A v \in Workers : Busy(v)' => Busy(v)
      /\ HandsInv' /\ PortInv' /\ SingleInv'
  BY <1>1, <1>2, <1>4, MoveKeeps
<1>6. TypeOK'
  BY <1>1, <1>2, <1>5, TypeParts, TypeStep DEF IInv
<1> QED
  BY <1>1, <1>5, <1>6, ClientStays DEF IInv

LEMMA PostAcceptInv ==
  ASSUME IInv, NEW w \in Workers, PostAccept(w)
  PROVE  IInv'
<1>1. /\ Busy(w) /\ Go(w, "loop")
      /\ UNCHANGED <<item, port, context, listed, receiving, sends, receiver, lock, stop, left,
                     released>>
      /\ accepts' \in Nat /\ failed' \in Nat
  BY TypeParts DEF PostAccept, Busy, IInv
<1>2. sends' > 0 => receiver' # None
  BY <1>1 DEF IInv, PortInv
<1>3. /\ pc' \in [Workers -> Steps] /\ pc'[w] = "loop"
      /\ \A v \in Workers \ {w} : pc'[v] = pc[v]
      /\ \A v \in Workers : Busy(v)' => Busy(v)
      /\ HandsInv' /\ PortInv' /\ SingleInv'
  BY <1>1, <1>2, MoveKeeps
<1>4. TypeOK'
  BY <1>1, <1>3, TypeParts, TypeStep DEF IInv
<1> QED
  BY <1>1, <1>3, <1>4, ClientStays DEF IInv

LEMMA PostReceiveInv ==
  ASSUME IInv, NEW w \in Workers, PostReceive(w)
  PROVE  IInv'
<1> DEFINE d == item[w].client
<1>1. /\ Busy(w) /\ Go(w, "loop")
      /\ UNCHANGED <<item, port, accepts, context, listed, sends, receiver, lock, stop, left,
                     failed, released>>
      /\ receiving \subseteq receiving' /\ receiving' \subseteq receiving \cup {d}
  BY DEF PostReceive, Busy, history
<1>2. item[w] \in Single /\ d \in Clients /\ item[w] = Completion("receive", d)
  BY CompletionFacts DEF PostReceive, IInv, HandsInv, Busy
<1>3. sends' > 0 => receiver' # None
  BY <1>1 DEF IInv, PortInv
<1>4. pc'[w] = "loop" /\ \A v \in Workers \ {w} : pc'[v] = pc[v]
  BY <1>1, GoFacts DEF IInv, Steps
<1>5. Completion("receive", d) \notin InPort
      /\ \A v \in Workers : Busy(v)' => item[v] # Completion("receive", d)
  BY <1>1, <1>2, <1>4 DEF IInv, SingleInv, Busy
<1>6. \A c \in receiving' \ receiving :
        /\ Completion("receive", c) \notin InPort
        /\ \A v \in Workers : Busy(v)' => item[v] # Completion("receive", c)
  BY <1>1, <1>5
<1>7. /\ pc' \in [Workers -> Steps]
      /\ \A v \in Workers : Busy(v)' => Busy(v)
      /\ HandsInv' /\ PortInv' /\ SingleInv'
  BY <1>1, <1>3, <1>6, MoveKeeps
<1>8. TypeOK'
  BY <1>1, <1>2, <1>7, TypeParts, TypeStep DEF IInv
<1>9. ASSUME NEW c \in Clients PROVE ClientInv(c)'
  <2>1. InPort' = InPort
    BY <1>1 DEF InPort
  <2>2. Received(c)' => Received(c)
    BY <1>1, <1>2, <1>7, <2>1 DEF Received, Completion
  <2>3. \A v \in Workers : pc'[v] \in AcceptSteps \cup {"taken"} => pc'[v] = pc[v]
    BY <1>4 DEF AcceptSteps
  <2> QED
    BY <1>1, <2>1, <2>2, <2>3 DEF IInv, ClientInv, AcceptSteps, Completion
<1> QED
  BY <1>7, <1>8, <1>9 DEF IInv

(* The receiver's context: nothing else uses it. *)
LEMMA DoSendCompleteInv ==
  ASSUME IInv, NEW w \in Workers, DoSendComplete(w)
  PROVE  IInv'
<1> DEFINE d == item[w].client
<1>1. /\ Busy(w) /\ Go(w, "loop") /\ item[w].op = "send"
      /\ UNCHANGED <<item, port, accepts, listed, receiving, sends, receiver, lock, stop, left,
                     failed>>
      /\ \/ UNCHANGED <<context, released>>
         \/ context' = [context EXCEPT ![d] = "freed"] /\ released' = TRUE
  BY DEF DoSendComplete, Taken, Busy
<1>2. d = receiver /\ d \in Clients
  BY <1>1, TypeParts DEF IInv, HandsInv
<1>3. sends' > 0 => receiver' # None
  BY <1>1 DEF IInv, PortInv
<1>4. /\ pc' \in [Workers -> Steps] /\ pc'[w] = "loop"
      /\ \A v \in Workers \ {w} : pc'[v] = pc[v]
      /\ \A v \in Workers : Busy(v)' => Busy(v)
      /\ HandsInv' /\ PortInv' /\ SingleInv'
  BY <1>1, <1>3, MoveKeeps
<1>5. /\ context' \in [Clients -> {"none", "live", "freed"}] /\ released' \in BOOLEAN
      /\ \A c \in Clients \ {d} : context'[c] = context[c]
      /\ \/ context'[d] = context[d] /\ released' = released
         \/ context'[d] = "freed" /\ released' = TRUE
  <2>1. context \in [Clients -> {"none", "live", "freed"}] /\ released \in BOOLEAN
    BY TypeParts DEF IInv
  <2>2. CASE UNCHANGED <<context, released>>
    BY <2>1, <2>2
  <2>3. CASE context' = [context EXCEPT ![d] = "freed"] /\ released' = TRUE
    BY <1>2, <2>1, <2>3
  <2> QED
    BY <1>1, <2>2, <2>3
<1>6. TypeOK'
  BY <1>1, <1>4, <1>5, TypeParts, TypeStep DEF IInv
<1>7. ASSUME NEW c \in Clients PROVE ClientInv(c)'
  <2>1. InPort' = InPort
    BY <1>1 DEF InPort
  <2>2. Received(c)' => Received(c)
    BY <1>1, <1>4, <2>1 DEF Received, Completion
  <2>3. \A v \in Workers : pc'[v] \in AcceptSteps \cup {"taken"} => pc'[v] = pc[v]
    BY <1>4 DEF AcceptSteps
  <2>4. ClientInv(c)
    BY DEF IInv
  <2>5. CASE c # d
    BY <1>1, <1>2, <1>5, <2>1, <2>2, <2>3, <2>4, <2>5
       DEF ClientInv, AcceptSteps, Completion
  <2>6. CASE c = d
    <3>1. /\ context[c] # "none" /\ ~Received(c) /\ c \notin listed
          /\ \A v \in Workers : pc[v] \in {"associated", "register", "add"} => item[v].client # c
      BY <1>2, <2>4, <2>6 DEF ClientInv
    <3> QED
      BY <1>1, <1>2, <1>5, <2>1, <2>2, <2>3, <2>4, <2>6, <3>1
         DEF ClientInv, AcceptSteps, Completion
  <2> QED
    BY <2>5, <2>6
<1> QED
  BY <1>4, <1>6, <1>7 DEF IInv

(* Who holds the client's receive may delete its context if it is listed:  *)
(* then the worker that accepted it is done with it.                       *)
LEMMA DisconnectedInv ==
  ASSUME IInv, NEW w \in Workers, Disconnected(w)
  PROVE  IInv'
<1> DEFINE d == item[w].client
<1>1. /\ Busy(w) /\ Go(w, "loop")
      /\ UNCHANGED <<item, port, accepts, receiving, sends, receiver, lock, stop, left, released>>
      /\ failed' \in Nat
  BY TypeParts DEF Disconnected, Busy, AcceptLost, IInv
<1>2. \/ UNCHANGED <<context, listed>>
      \/ /\ item[w].op = "receive" /\ d \in listed
         /\ listed' = listed \ {d} /\ context' = [context EXCEPT ![d] = "freed"]
  BY DEF Disconnected, RemoveContext
<1>3. sends' > 0 => receiver' # None
  BY <1>1 DEF IInv, PortInv
<1>4. /\ pc' \in [Workers -> Steps] /\ pc'[w] = "loop"
      /\ \A v \in Workers \ {w} : pc'[v] = pc[v]
      /\ \A v \in Workers : Busy(v)' => Busy(v)
      /\ HandsInv' /\ PortInv' /\ SingleInv'
  BY <1>1, <1>3, MoveKeeps
<1>5. TypeOK'
  BY <1>1, <1>2, <1>4, TypeParts, TypeStep DEF IInv
<1>6. CASE UNCHANGED <<context, listed>>
  BY <1>1, <1>4, <1>5, <1>6, ClientStays DEF IInv
<1>7. CASE /\ item[w].op = "receive" /\ d \in listed
           /\ listed' = listed \ {d} /\ context' = [context EXCEPT ![d] = "freed"]
  <2>1. item[w] \in Single /\ d \in Clients /\ item[w] = Completion("receive", d)
    BY <1>1, <1>7, CompletionFacts DEF IInv, HandsInv
  <2>2. /\ context'[d] = "freed" /\ \A c \in Clients \ {d} : context'[c] = context[c]
    BY <1>7, <2>1, TypeParts DEF IInv
  <2>3. InPort' = InPort
    BY <1>1 DEF InPort
  <2>4. ASSUME NEW c \in Clients PROVE ClientInv(c)'
    <3>1. Received(c)' => Received(c)
      BY <1>1, <1>4, <2>3 DEF Received, Completion
    <3>2. \A v \in Workers : pc'[v] \in AcceptSteps \cup {"taken"} => pc'[v] = pc[v]
      BY <1>4 DEF AcceptSteps
    <3>3. ClientInv(c)
      BY DEF IInv
    <3>4. CASE c # d
      BY <1>1, <1>7, <2>2, <2>3, <3>1, <3>2, <3>3, <3>4
         DEF ClientInv, AcceptSteps, Completion
    <3>5. CASE c = d
      <4>1. /\ context[c] = "live" /\ receiver # c
            /\ \A v \in Workers :
                 pc[v] \in {"associated", "register", "add"} => item[v].client # c
        BY <1>7, <3>3, <3>5 DEF ClientInv
      <4>2. ~Received(c)'
        <5>1. c \notin receiving /\ Completion("receive", c) \notin InPort
          BY <1>1, <2>1, <3>5 DEF IInv, SingleInv
        <5>2. \A v \in Workers : Busy(v)' => item[v] # Completion("receive", c)
          BY <1>1, <1>4, <2>1, <3>5 DEF IInv, SingleInv, Busy
        <5> QED
          BY <1>1, <2>3, <5>1, <5>2 DEF Received, Completion
      <4> QED
        BY <1>1, <1>7, <2>2, <2>3, <3>2, <3>3, <3>5, <4>1, <4>2
           DEF ClientInv, AcceptSteps, Completion
    <3> QED
      BY <3>4, <3>5
  <2> QED
    BY <1>4, <1>5, <2>4 DEF IInv
<1> QED
  BY <1>2, <1>6, <1>7

(* A client is accepted by one worker. *)
LEMMA OneAccepts ==
  ASSUME IInv, NEW w \in Workers, Busy(w), item[w].op = "accept"
  PROVE  /\ item[w].client \in Clients
         /\ item[w] = Completion("accept", item[w].client)
         /\ item[w] \notin InPort
         /\ \A v \in Workers \ {w} : Busy(v) => item[v] # item[w]
         /\ \A v \in Workers \ {w} :
              pc[v] \in AcceptSteps => item[v].client # item[w].client
<1>1. item[w] \in Single
  BY DEF IInv, HandsInv
<1>2. item[w].client \in Clients /\ item[w] = Completion("accept", item[w].client)
  BY <1>1, CompletionFacts
<1>3. item[w] \notin InPort /\ \A v \in Workers \ {w} : Busy(v) => item[v] # item[w]
  BY <1>1 DEF IInv, SingleInv
<1>4. ASSUME NEW v \in Workers \ {w}, pc[v] \in AcceptSteps, item[v].client = item[w].client
      PROVE  FALSE
  <2>1. Busy(v) /\ item[v].op = "accept"
    BY <1>4 DEF Busy, AcceptSteps, IInv, HandsInv
  <2>2. item[v] \in Single
    BY <2>1 DEF IInv, HandsInv
  <2>3. item[v] = Completion("accept", item[v].client)
    BY <2>1, <2>2, CompletionFacts
  <2> QED
    BY <1>2, <1>3, <1>4, <2>1, <2>3
<1> QED
  BY <1>2, <1>3, <1>4

LEMMA DoAcceptInv ==
  ASSUME IInv, NEW w \in Workers, DoAccept(w)
  PROVE  IInv'
<1> DEFINE d == item[w].client
<1>1. /\ Busy(w) /\ item[w].op = "accept" /\ pc[w] = "taken"
      /\ UNCHANGED <<item, port, accepts, listed, receiving, sends, receiver, lock, stop, left,
                     released>>
      /\ failed' \in Nat
      /\ \/ context' = [context EXCEPT ![d] = "live"]
            /\ \E s \in {"associated", "register"} : Go(w, s)
         \/ context' = [context EXCEPT ![d] = "freed"] /\ Go(w, "loop")
  BY TypeParts DEF DoAccept, Taken, Busy, IInv
<1>2. PICK step \in {"associated", "register", "loop"} :
        Go(w, step) /\ context' = [context EXCEPT ![d] = IF step = "loop" THEN "freed" ELSE "live"]
  BY <1>1
<1>3. /\ d \in Clients /\ item[w] = Completion("accept", d) /\ item[w] \notin InPort
      /\ \A v \in Workers \ {w} : Busy(v) => item[v] # item[w]
      /\ \A v \in Workers \ {w} : pc[v] \in AcceptSteps => item[v].client # d
  BY <1>1, OneAccepts
<1>4. sends' > 0 => receiver' # None
  BY <1>1 DEF IInv, PortInv
<1>5. /\ pc' \in [Workers -> Steps] /\ pc'[w] = step
      /\ \A v \in Workers \ {w} : pc'[v] = pc[v]
      /\ \A v \in Workers : Busy(v)' => Busy(v)
      /\ HandsInv' /\ PortInv' /\ SingleInv'
  BY <1>1, <1>2, <1>4, MoveKeeps DEF AcceptSteps
<1>6. /\ context' \in [Clients -> {"none", "live", "freed"}]
      /\ \A c \in Clients \ {d} : context'[c] = context[c]
      /\ context'[d] = IF step = "loop" THEN "freed" ELSE "live"
  BY <1>2, <1>3, TypeParts DEF IInv
<1>7. TypeOK'
  BY <1>1, <1>5, <1>6, TypeParts, TypeStep DEF IInv
<1>8. InPort' = InPort
  BY <1>1 DEF InPort
<1>9. ASSUME NEW c \in Clients PROVE ClientInv(c)'
  <2>1. Received(c)' => Received(c)
    BY <1>1, <1>5, <1>8 DEF Received, Completion
  <2>2. ClientInv(c)
    BY DEF IInv
  <2>3. CASE c # d
    <3>1. \A v \in Workers : pc'[v] \in AcceptSteps \cup {"taken"} =>
            pc'[v] = pc[v] \/ item[v].client # c
      BY <1>5, <2>3
    <3> QED
      BY <1>1, <1>6, <1>8, <2>1, <2>2, <2>3, <3>1
         DEF ClientInv, AcceptSteps, Completion
  <2>4. CASE c = d
    <3>1. context[c] = "none"
      BY <1>1, <1>3, <2>2, <2>4 DEF ClientInv
    <3>2. ~Received(c) /\ c \notin listed /\ receiver # c
      BY <2>2, <3>1 DEF ClientInv
    <3>3. Completion("accept", c) \notin InPort
          /\ \A v \in Workers : pc'[v] = "taken" => item[v] # Completion("accept", c)
      BY <1>2, <1>3, <1>5, <2>4 DEF Busy
    <3>4. \A v \in Workers : pc'[v] \in AcceptSteps /\ item[v].client = c =>
            v = w /\ step # "loop"
      BY <1>3, <1>5, <2>4 DEF AcceptSteps
    <3>5. step # "loop" => context'[c] = "live"
      BY <1>6, <2>4
    <3> QED
      BY <1>1, <1>2, <1>5, <1>8, <2>1, <2>4, <3>2, <3>3, <3>4, <3>5
         DEF ClientInv, AcceptSteps, Completion
  <2> QED
    BY <2>3, <2>4
<1> QED
  BY <1>5, <1>7, <1>9 DEF IInv

LEMMA PostFirstReceiveInv ==
  ASSUME IInv, NEW w \in Workers, PostFirstReceive(w)
  PROVE  IInv'
<1> DEFINE d == item[w].client
<1>1. /\ Busy(w) /\ pc[w] = "associated"
      /\ UNCHANGED <<item, port, accepts, context, listed, sends, receiver, lock, stop, left,
                     released>>
      /\ failed' \in Nat
      /\ \/ receiving' = receiving \cup {d} /\ Go(w, "add")
         \/ receiving' = receiving /\ Go(w, "loop")
  BY TypeParts DEF PostFirstReceive, Busy, IInv
<1>2. item[w].op = "accept"
  BY <1>1 DEF IInv, HandsInv, AcceptSteps
<1>3. sends' > 0 => receiver' # None
  BY <1>1 DEF IInv, PortInv
<1>4. CASE receiving' = receiving /\ Go(w, "loop")
  <2>1. /\ pc' \in [Workers -> Steps] /\ pc'[w] = "loop"
        /\ \A v \in Workers \ {w} : pc'[v] = pc[v]
        /\ \A v \in Workers : Busy(v)' => Busy(v)
        /\ HandsInv' /\ PortInv' /\ SingleInv'
    BY <1>1, <1>3, <1>4, MoveKeeps
  <2>2. TypeOK'
    BY <1>1, <1>4, <2>1, TypeParts, TypeStep DEF IInv
  <2> QED
    BY <1>1, <1>4, <2>1, <2>2, ClientStays DEF IInv
<1>5. CASE receiving' = receiving \cup {d} /\ Go(w, "add")
  <2>1. /\ d \in Clients /\ item[w] = Completion("accept", d) /\ item[w] \notin InPort
        /\ \A v \in Workers \ {w} : Busy(v) => item[v] # item[w]
        /\ \A v \in Workers \ {w} : pc[v] \in AcceptSteps => item[v].client # d
    BY <1>1, <1>2, OneAccepts
  <2>2. context[d] = "live" /\ ~Received(d) /\ d \notin listed /\ receiver # d
    BY <1>1, <2>1 DEF IInv, ClientInv
  <2>3. pc'[w] = "add" /\ \A v \in Workers \ {w} : pc'[v] = pc[v]
    BY <1>5, GoFacts DEF IInv, Steps, AcceptSteps
  <2>4. \A c \in receiving' \ receiving :
          /\ Completion("receive", c) \notin InPort
          /\ \A v \in Workers : Busy(v)' => item[v] # Completion("receive", c)
    <3>1. \A v \in Workers : Busy(v)' => Busy(v)
      BY <1>1, <2>3 DEF Busy
    <3> QED
      BY <1>5, <2>2, <3>1 DEF Received
  <2>5. /\ pc' \in [Workers -> Steps]
        /\ \A v \in Workers : Busy(v)' => Busy(v)
        /\ HandsInv' /\ PortInv' /\ SingleInv'
    BY <1>1, <1>2, <1>3, <1>5, <2>4, MoveKeeps DEF AcceptSteps
  <2>6. TypeOK'
    BY <1>1, <1>5, <2>1, <2>5, TypeParts, TypeStep DEF IInv
  <2>7. InPort' = InPort
    BY <1>1 DEF InPort
  <2>8. ASSUME NEW c \in Clients PROVE ClientInv(c)'
    <3>1. ClientInv(c)
      BY DEF IInv
    <3>2. CASE c # d
      <4>1. Received(c)' => Received(c)
        BY <1>1, <1>5, <2>5, <2>7, <3>2 DEF Received, Completion
      <4>2. \A v \in Workers : pc'[v] \in AcceptSteps \cup {"taken"} =>
              pc'[v] = pc[v] \/ item[v].client # c
        BY <2>3, <3>2
      <4> QED
        BY <1>1, <2>7, <3>1, <3>2, <4>1, <4>2 DEF ClientInv, AcceptSteps, Completion
    <3>3. CASE c = d
      <4>1. Completion("accept", c) \notin InPort
            /\ \A v \in Workers : pc'[v] = "taken" => item[v] # Completion("accept", c)
        BY <2>1, <2>3, <3>3 DEF Busy
      <4>2. \A v \in Workers : pc'[v] \in AcceptSteps /\ item[v].client = c => v = w
        BY <2>1, <2>3, <3>3
      <4> QED
        BY <1>1, <2>2, <2>3, <2>7, <3>3, <4>1, <4>2 DEF ClientInv, AcceptSteps, Completion
    <3> QED
      BY <3>2, <3>3
  <2> QED
    BY <2>5, <2>6, <2>8 DEF IInv
<1> QED
  BY <1>1, <1>4, <1>5

(* The two ends of an accept that give the context to the list or make it  *)
(* the receiver's. *)
LEMMA AddedInv ==
  ASSUME IInv, NEW w \in Workers, AddToContextList(w) \/ RegisterReceiver(w)
  PROVE  IInv'
<1> DEFINE d == item[w].client
<1>1. /\ Busy(w) /\ pc[w] \in {"add", "register"} /\ Go(w, "repost")
      /\ UNCHANGED <<item, port, accepts, context, receiving, sends, lock, stop, left, failed,
                     released>>
      /\ \/ pc[w] = "add" /\ listed' = listed \cup {d} /\ receiver' = receiver
         \/ pc[w] = "register" /\ listed' = listed
              /\ receiver' = IF receiver = None THEN d ELSE receiver
  BY DEF AddToContextList, RegisterReceiver, Busy, history
<1>2. item[w].op = "accept"
  BY <1>1 DEF IInv, HandsInv, AcceptSteps
<1>3. /\ d \in Clients /\ item[w] = Completion("accept", d) /\ item[w] \notin InPort
      /\ \A v \in Workers \ {w} : Busy(v) => item[v] # item[w]
      /\ \A v \in Workers \ {w} : pc[v] \in AcceptSteps => item[v].client # d
  BY <1>1, <1>2, OneAccepts
<1>4. /\ context[d] = "live" /\ d \notin listed /\ receiver # d
      /\ pc[w] = "register" => ~Received(d)
  BY <1>1, <1>3 DEF IInv, ClientInv
<1>5. d # None /\ (receiver # None => receiver' = receiver)
  BY <1>1, <1>3, PiggyAssumption
<1>6. sends' > 0 => receiver' # None
  BY <1>1, <1>5 DEF IInv, PortInv
<1>7. /\ pc' \in [Workers -> Steps] /\ pc'[w] = "repost"
      /\ \A v \in Workers \ {w} : pc'[v] = pc[v]
      /\ \A v \in Workers : Busy(v)' => Busy(v)
      /\ HandsInv' /\ PortInv' /\ SingleInv'
  BY <1>1, <1>2, <1>5, <1>6, MoveKeeps DEF AcceptSteps
<1>8. TypeOK'
  BY <1>1, <1>3, <1>7, TypeParts, TypeStep DEF IInv
<1>9. InPort' = InPort
  BY <1>1 DEF InPort
<1>10. ASSUME NEW c \in Clients PROVE ClientInv(c)'
  <2>1. ClientInv(c)
    BY DEF IInv
  <2>2. Received(c)' => Received(c)
    BY <1>1, <1>7, <1>9 DEF Received, Completion
  <2>3. CASE c # d
    <3>1. \A v \in Workers : pc'[v] \in AcceptSteps \cup {"taken"} =>
            pc'[v] = pc[v] \/ item[v].client # c
      BY <1>7, <2>3
    <3>2. (c \in listed' <=> c \in listed) /\ (receiver' = c => receiver = c)
      BY <1>1, <2>3
    <3> QED
      BY <1>1, <1>9, <2>1, <2>2, <2>3, <3>1, <3>2 DEF ClientInv, AcceptSteps, Completion
  <2>4. CASE c = d
    <3>1. Completion("accept", c) \notin InPort
          /\ \A v \in Workers : pc'[v] = "taken" => item[v] # Completion("accept", c)
      BY <1>3, <1>7, <2>4 DEF Busy
    <3>2. \A v \in Workers : pc'[v] \in AcceptSteps /\ item[v].client = c =>
            pc'[v] = "repost"
      BY <1>3, <1>7, <2>4
    <3>3. Received(c)' \/ c \in listed' => receiver' # c
      BY <1>1, <1>4, <2>2, <2>4
    <3> QED
      BY <1>1, <1>4, <1>9, <2>4, <3>1, <3>2, <3>3 DEF ClientInv, AcceptSteps, Completion
  <2> QED
    BY <2>3, <2>4
<1> QED
  BY <1>7, <1>8, <1>10 DEF IInv

(* A worker at the port, or at its end, has nothing in its hands. *)
LEMMA NextCompletionInv ==
  ASSUME IInv, NEW w \in Workers, NextCompletion(w)
  PROVE  IInv'
<1>1. /\ pc[w] = "loop"
      /\ item' = [item EXCEPT ![w] = Exit]
      /\ UNCHANGED <<port, accepts, context, listed, receiving, sends, receiver, lock, stop,
                     left, failed, released>>
  BY DEF NextCompletion, sockets, history
<1>2. PICK step \in {"port", "ended"} : Go(w, step)
  BY DEF NextCompletion
<1>3. /\ pc' \in [Workers -> Steps] /\ pc'[w] = step
      /\ \A v \in Workers \ {w} : pc'[v] = pc[v]
  BY <1>2, GoFacts DEF IInv, Steps
<1>4. /\ item' \in [Workers -> Completions]
      /\ \A v \in Workers \ {w} : item'[v] = item[v]
  BY <1>1, TypeParts, CompletionFacts DEF IInv
<1>5. TypeOK'
  BY <1>1, <1>3, <1>4, TypeParts, TypeStep DEF IInv
<1>6. \A v \in Workers : pc'[v] \notin {"loop", "port", "ended"} =>
        v # w /\ pc'[v] = pc[v] /\ item'[v] = item[v]
  BY <1>1, <1>2, <1>3, <1>4
<1>7. InPort' = InPort /\ Single' = Single
  BY <1>1 DEF InPort, Single, Completion
<1>8. \A v \in Workers : Busy(v)' => Busy(v) /\ pc'[v] = pc[v] /\ item'[v] = item[v]
  BY <1>6 DEF Busy
<1>9. HandsInv'
  <2> SUFFICES ASSUME NEW v \in Workers
               PROVE  /\ pc'[v] \in AcceptSteps => item'[v].op = "accept"
                      /\ pc'[v] \in {"enter", "sending", "receive"} => item'[v].op = "receive"
                      /\ Busy(v)' /\ item'[v].op # "send" => item'[v] \in Single
                      /\ Busy(v)' /\ item'[v].op = "send" =>
                           item'[v].client = receiver' /\ receiver' # None
    BY <1>7 DEF HandsInv
  <2> QED
    BY <1>1, <1>6, <1>8 DEF IInv, HandsInv, AcceptSteps
<1>10. PortInv'
  BY <1>1, <1>7 DEF IInv, PortInv, Exit, Completion
<1>11. SingleInv'
  BY <1>1, <1>7, <1>8 DEF IInv, SingleInv, Unique, Completion
<1>12. ASSUME NEW c \in Clients PROVE ClientInv(c)'
  <2>1. Received(c)' => Received(c)
    BY <1>1, <1>7, <1>8 DEF Received, Completion
  <2>2. ClientInv(c)
    BY DEF IInv
  <2> QED
    BY <1>1, <1>6, <1>7, <2>1, <2>2 DEF ClientInv, AcceptSteps, Completion
<1> QED
  BY <1>5, <1>9, <1>10, <1>11, <1>12 DEF IInv

(* The completion goes from the port into the worker's hands. *)
LEMMA GetCompletionInv ==
  ASSUME IInv, NEW w \in Workers, GetCompletion(w)
  PROVE  IInv'
<1> DEFINE x == Head(port)
<1>1. /\ pc[w] = "port" /\ port # << >> /\ port' = Tail(port)
      /\ item' = [item EXCEPT ![w] = x]
      /\ Go(w, IF x = Exit THEN "ended" ELSE "taken")
      /\ UNCHANGED <<accepts, context, listed, receiving, sends, receiver, lock, stop,
                     left, failed, released>>
  BY DEF GetCompletion, sockets, history
<1>2. /\ port' \in Seq(Completions) /\ x \in InPort /\ x \in Completions
      /\ InPort' \subseteq InPort /\ Unique(port')
      /\ x \in Single => x \notin InPort'
  BY <1>1, TailFacts, TypeParts DEF IInv, SingleInv
<1> HIDE DEF x
<1>3. /\ pc' \in [Workers -> Steps] /\ pc'[w] = IF x = Exit THEN "ended" ELSE "taken"
      /\ \A v \in Workers \ {w} : pc'[v] = pc[v]
  BY <1>1, GoFacts DEF IInv, Steps
<1>4. /\ item' \in [Workers -> Completions] /\ item'[w] = x
      /\ \A v \in Workers \ {w} : item'[v] = item[v]
  BY <1>1, <1>2, TypeParts DEF IInv
<1>5. TypeOK'
  BY <1>1, <1>2, <1>3, <1>4, TypeParts, TypeStep DEF IInv
<1>6. \A v \in Workers : pc'[v] \notin {"loop", "port", "ended"} =>
        \/ v # w /\ pc'[v] = pc[v] /\ item'[v] = item[v]
        \/ v = w /\ x # Exit /\ pc'[v] = "taken" /\ item'[v] = x
  BY <1>3, <1>4
<1>7. Single' = Single
  BY DEF Single, Completion
<1>8. \A v \in Workers : Busy(v)' =>
        \/ v # w /\ Busy(v) /\ pc'[v] = pc[v] /\ item'[v] = item[v]
        \/ v = w /\ x # Exit /\ pc'[v] = "taken" /\ item'[v] = x
  BY <1>6 DEF Busy
<1>9. x = Exit \/ x \in Single \/ (x = Completion("send", receiver) /\ receiver # None)
  BY <1>2, CompletionFacts DEF IInv, PortInv
<1>10. HandsInv'
  <2> SUFFICES ASSUME NEW v \in Workers
               PROVE  /\ pc'[v] \in AcceptSteps => item'[v].op = "accept"
                      /\ pc'[v] \in {"enter", "sending", "receive"} => item'[v].op = "receive"
                      /\ Busy(v)' /\ item'[v].op # "send" => item'[v] \in Single
                      /\ Busy(v)' /\ item'[v].op = "send" =>
                           item'[v].client = receiver' /\ receiver' # None
    BY <1>7 DEF HandsInv
  <2>1. CASE v = w
    BY <1>1, <1>3, <1>4, <1>8, <1>9, <2>1, CompletionFacts DEF AcceptSteps
  <2>2. CASE v # w
    BY <1>1, <1>3, <1>4, <1>8, <2>2 DEF IInv, HandsInv
  <2> QED
    BY <2>1, <2>2
<1>11. PortInv'
  BY <1>1, <1>2, <1>7 DEF IInv, PortInv, Exit, Completion
<1>12. SingleInv'
  <2>1. \A u, v \in Workers :
          Busy(u)' /\ Busy(v)' /\ item'[u] = item'[v] /\ item'[u] \in Single => u = v
    BY <1>2, <1>8 DEF IInv, SingleInv
  <2>2. \A v \in Workers : Busy(v)' /\ item'[v] \in Single => item'[v] \notin InPort'
    BY <1>2, <1>8 DEF IInv, SingleInv
  <2>3. ASSUME NEW c \in receiving'
        PROVE  /\ Completion("receive", c) \notin InPort'
               /\ \A v \in Workers : Busy(v)' => item'[v] # Completion("receive", c)
    BY <1>1, <1>2, <1>8 DEF IInv, SingleInv
  <2> QED
    BY <1>2, <1>7, <2>1, <2>2, <2>3 DEF SingleInv, Unique, Completion
<1>13. ASSUME NEW c \in Clients PROVE ClientInv(c)'
  <2>1. Received(c)' => Received(c)
    BY <1>1, <1>2, <1>8 DEF Received, Completion
  <2>2. ClientInv(c)
    BY DEF IInv
  <2>3. \A v \in Workers : pc'[v] \in AcceptSteps =>
          pc'[v] = pc[v] /\ item'[v] = item[v]
    BY <1>6 DEF AcceptSteps
  <2>4. \A v \in Workers : pc'[v] = "taken" /\ item'[v] = Completion("accept", c) =>
          \/ pc[v] = "taken" /\ item[v] = Completion("accept", c)
          \/ Completion("accept", c) \in InPort
    BY <1>2, <1>6
  <2> QED
    BY <1>1, <1>2, <2>1, <2>2, <2>3, <2>4 DEF ClientInv, AcceptSteps, Completion
<1> QED
  BY <1>5, <1>10, <1>11, <1>12, <1>13 DEF IInv
-----------------------------------------------------------------------------
(* Completions come to the port. *)
LEMMA PortGains ==
  ASSUME IInv, UNCHANGED <<pc, item, context, listed, receiver, released>>, NEW x,
         InPort' \subseteq InPort \cup {x}, Unique(port'), receiving' \subseteq receiving,
         sends' > 0 => receiver # None,
         \/ x = Exit
         \/ x = Completion("send", receiver) /\ receiver # None
         \/ \E c \in Clients : x = Completion("accept", c) /\ ~Arrived(c)
         \/ \E c \in receiving \ receiving' : x = Completion("receive", c)
  PROVE  HandsInv' /\ PortInv' /\ SingleInv' /\ (\A c \in Clients : ClientInv(c)')
<1>1. Single' = Single /\ Exit' = Exit
  BY DEF Single, Completion, Exit
<1>2. HandsInv'
  BY <1>1 DEF IInv, HandsInv, Busy
<1>3. receiving \subseteq Clients
  BY TypeParts DEF IInv
<1>4. \/ x = Exit /\ x \notin Single
      \/ x = Completion("send", receiver) /\ receiver # None /\ receiver \in Clients
           /\ x \notin Single
      \/ x.op # "send" /\ x \in Single /\ x \notin InPort
           /\ \A w \in Workers : Busy(w) => item[w] # x
  <2>1. CASE x = Exit
    BY <2>1, CompletionFacts
  <2>2. CASE x = Completion("send", receiver) /\ receiver # None
    BY <2>2, CompletionFacts, TypeParts DEF IInv
  <2>3. ASSUME NEW c \in Clients, x = Completion("accept", c), ~Arrived(c)
        PROVE  x.op # "send" /\ x \in Single /\ x \notin InPort
                 /\ \A w \in Workers : Busy(w) => item[w] # x
    <3>1. x.op = "accept" /\ x.client = c /\ x \in Single /\ x \notin InPort
      BY <2>3, CompletionFacts DEF Arrived, InPort
    <3>2. ASSUME NEW w \in Workers, Busy(w), item[w] = x PROVE FALSE
      <4>1. pc[w] \in AcceptSteps \cup {"taken"}
        BY <3>1, <3>2, TypeParts DEF IInv, HandsInv, Busy, Steps
      <4>2. context[c] = "none" /\ pc[w] # "taken"
        BY <2>3, <3>2 DEF Arrived
      <4> QED
        BY <3>1, <3>2, <4>1, <4>2 DEF IInv, ClientInv
    <3> QED
      BY <3>1, <3>2
  <2>4. ASSUME NEW c \in receiving \ receiving', x = Completion("receive", c)
        PROVE  x.op # "send" /\ x \in Single /\ x \notin InPort
                 /\ \A w \in Workers : Busy(w) => item[w] # x
    BY <1>3, <2>4, CompletionFacts DEF IInv, SingleInv
  <2> QED
    BY <2>1, <2>2, <2>3, <2>4
<1>5. PortInv'
  <2>1. \A y \in InPort' : y = Exit \/ y \in Single \/ y = Completion("send", receiver)
    BY <1>4 DEF IInv, PortInv
  <2>2. (\E y \in InPort' : y.op = "send") => receiver # None
    BY <1>4, CompletionFacts DEF IInv, PortInv
  <2> QED
    BY <1>1, <2>1, <2>2 DEF PortInv, Completion
<1>6. SingleInv'
  <2>1. \A v \in Workers : Busy(v) /\ item[v] \in Single => item[v] \notin InPort'
    BY <1>4 DEF IInv, SingleInv
  <2>2. ASSUME NEW c \in receiving'
        PROVE  /\ Completion("receive", c) \notin InPort'
               /\ \A v \in Workers : Busy(v) => item[v] # Completion("receive", c)
    <3>1. /\ c \in receiving /\ Completion("receive", c) \notin InPort
          /\ \A v \in Workers : Busy(v) => item[v] # Completion("receive", c)
      BY <2>2 DEF IInv, SingleInv
    <3>2. x # Completion("receive", c)
      BY <2>2, CompletionFacts DEF Exit
    <3> QED
      BY <3>1, <3>2
  <2> QED
    BY <1>1, <2>1, <2>2 DEF IInv, SingleInv, Unique, Completion, Busy
<1>7. ASSUME NEW c \in Clients PROVE ClientInv(c)'
  <2>1. Received(c)' => Received(c)
    BY CompletionFacts DEF Received, Completion, Busy, Exit
  <2>2. Completion("accept", c) \in InPort' => context[c] = "none"
    BY CompletionFacts DEF IInv, ClientInv, Arrived, Exit
  <2> QED
    BY <2>1, <2>2 DEF IInv, ClientInv, Completion
<1> QED
  BY <1>2, <1>5, <1>6, <1>7

LEMMA ArrivalsInv ==
  ASSUME IInv,
         \/ \E c \in Clients : Connect(c) \/ ReceiveCompletes(c)
         \/ SendCompletes
  PROVE  IInv'
<1>1. ASSUME NEW c \in Clients, Connect(c) PROVE IInv'
  <2> DEFINE x == Completion("accept", c)
  <2>1. /\ ~Arrived(c) /\ accepts > 0 /\ accepts' = accepts - 1 /\ port' = Append(port, x)
        /\ UNCHANGED <<pc, item, context, listed, receiving, sends, receiver, lock, stop,
                       left, failed, released>>
    BY <1>1 DEF Connect, history
  <2>2. x \in Completions /\ x \notin InPort
    BY <2>1, CompletionFacts DEF Arrived, InPort
  <2>3. /\ port' \in Seq(Completions) /\ InPort' = InPort \cup {x} /\ Unique(port')
    BY <2>1, <2>2, AppendFacts, TypeParts DEF IInv, SingleInv
  <2>4. sends' > 0 => receiver # None
    BY <2>1 DEF IInv, PortInv
  <2>5. accepts' \in Nat
    BY <2>1, TypeParts DEF IInv
  <2>6. TypeOK'
    BY <2>1, <2>3, <2>5, TypeParts, TypeStep DEF IInv
  <2> QED
    BY <2>1, <2>3, <2>4, <2>6, PortGains DEF IInv
<1>2. ASSUME NEW c \in Clients, ReceiveCompletes(c) PROVE IInv'
  <2> DEFINE x == Completion("receive", c)
  <2>1. /\ c \in receiving /\ receiving' = receiving \ {c} /\ port' = Append(port, x)
        /\ UNCHANGED <<pc, item, accepts, context, listed, sends, receiver, lock, stop,
                       left, failed, released>>
    BY <1>2 DEF ReceiveCompletes, history
  <2>2. x \in Completions /\ x \notin InPort
    BY <2>1, CompletionFacts DEF IInv, SingleInv
  <2>3. /\ port' \in Seq(Completions) /\ InPort' = InPort \cup {x} /\ Unique(port')
    BY <2>1, <2>2, AppendFacts, TypeParts DEF IInv, SingleInv
  <2>4. sends' > 0 => receiver # None
    BY <2>1 DEF IInv, PortInv
  <2>5. TypeOK'
    BY <2>1, <2>3, TypeParts, TypeStep DEF IInv
  <2> QED
    BY <2>1, <2>3, <2>4, <2>5, PortGains DEF IInv
<1>3. ASSUME SendCompletes PROVE IInv'
  <2> DEFINE x == Completion("send", receiver)
  <2>1. /\ sends > 0 /\ sends' = sends - 1 /\ port' = Append(port, x)
        /\ UNCHANGED <<pc, item, accepts, context, listed, receiving, receiver, lock, stop,
                       left, failed, released>>
    BY <1>3 DEF SendCompletes, history
  <2>2. receiver # None /\ receiver \in Clients
    BY <2>1, TypeParts DEF IInv, PortInv
  <2>3. x \in Completions /\ x \notin Single
    BY <2>2, CompletionFacts
  <2>4. /\ port' \in Seq(Completions) /\ InPort' = InPort \cup {x} /\ Unique(port')
    BY <2>1, <2>3, AppendFacts, TypeParts DEF IInv, SingleInv
  <2>5. sends' \in 0 .. MaxSends
    BY <2>1, TypeParts, PiggyAssumption DEF IInv
  <2>6. TypeOK'
    BY <2>1, <2>4, <2>5, TypeParts, TypeStep DEF IInv
  <2> QED
    BY <2>1, <2>2, <2>4, <2>6, PortGains DEF IInv
<1> QED
  BY <1>1, <1>2, <1>3

LEMMA StopInv ==
  ASSUME IInv, Stop
  PROVE  IInv'
<1>1. /\ stop' = "waiting" /\ port' = port \o Exits(Cardinality(Workers))
      /\ UNCHANGED <<pc, item, accepts, context, listed, receiving, sends, receiver, lock,
                     left, failed, released>>
  BY DEF Stop, sockets, history
<1>2. Cardinality(Workers) \in Nat
  BY PiggyAssumption, FS_CardinalityType
<1>3. /\ port' \in Seq(Completions) /\ InPort' \subseteq InPort \cup {Exit} /\ Unique(port')
  BY <1>1, <1>2, ExitsFacts, TypeParts DEF IInv, SingleInv
<1>4. sends' > 0 => receiver # None
  BY <1>1 DEF IInv, PortInv
<1>5. TypeOK'
  BY <1>1, <1>3, TypeParts, TypeStep DEF IInv
<1> QED
  BY <1>1, <1>3, <1>4, <1>5, PortGains DEF IInv

(* All workers have ended: nothing is posted, in the port or in hands.     *)
LEMMA StopReturnsInv ==
  ASSUME IInv, StopReturns
  PROVE  IInv'
<1>1. /\ \A w \in Workers : pc[w] = "ended"
      /\ stop' = "returned" /\ port' = << >> /\ accepts' = 0 /\ listed' = {}
      /\ receiving' = {} /\ sends' = 0 /\ receiver' = None
      /\ context' = [c \in Clients |-> IF c \in listed \cup {receiver} THEN "freed"
                                       ELSE context[c]]
      /\ UNCHANGED <<pc, item, lock, left, failed, released>>
  BY DEF StopReturns, history
<1>2. context' \in [Clients -> {"none", "live", "freed"}]
  BY <1>1, TypeParts DEF IInv
<1>3. port' \in Seq(Completions) /\ DOMAIN port' = {} /\ 0 \in 0 .. MaxSends
  BY <1>1, PiggyAssumption
<1>4. TypeOK'
  BY <1>1, <1>2, <1>3, TypeParts, TypeStep DEF IInv
<1>5. InPort' = {} /\ Unique(port')
  BY <1>3 DEF InPort, Unique
<1>6. \A w \in Workers : ~Busy(w)' /\ pc'[w] = "ended"
  BY <1>1 DEF Busy
<1>7. HandsInv' /\ PortInv' /\ SingleInv'
  BY <1>1, <1>5, <1>6 DEF HandsInv, PortInv, SingleInv, AcceptSteps, Unique
<1>8. ASSUME NEW c \in Clients PROVE ClientInv(c)'
  <2>1. ~Received(c)'
    BY <1>1, <1>5, <1>6 DEF Received
  <2>2. receiver' # c
    BY <1>1, PiggyAssumption
  <2> QED
    BY <1>1, <1>5, <1>6, <2>1, <2>2 DEF ClientInv, AcceptSteps
<1> QED
  BY <1>4, <1>7, <1>8 DEF IInv
-----------------------------------------------------------------------------
LEMMA InitInv == Init => IInv
<1> SUFFICES ASSUME Init PROVE IInv
  OBVIOUS
<1>1. /\ pc \in [Workers -> Steps] /\ item \in [Workers -> Completions]
      /\ port \in Seq(Completions)
      /\ context \in [Clients -> {"none", "live", "freed"}]
      /\ accepts \in Nat /\ sends \in 0 .. MaxSends
  BY CompletionFacts, PiggyAssumption DEF Init, Steps
<1>2. TypeOK
  BY <1>1 DEF Init, TypeOK, Steps
<1>3. InPort = {} /\ Unique(port) /\ \A w \in Workers : ~Busy(w) /\ pc[w] = "loop"
  BY DEF Init, InPort, Unique, Busy
<1>4. HandsInv /\ PortInv /\ SingleInv
  BY <1>3 DEF Init, HandsInv, PortInv, SingleInv, AcceptSteps
<1>5. \A c \in Clients : ~Received(c)
  BY <1>3 DEF Init, Received
<1>6. ASSUME NEW c \in Clients PROVE ClientInv(c)
  BY <1>3, <1>5, PiggyAssumption DEF Init, ClientInv, AcceptSteps
<1> QED
  BY <1>2, <1>4, <1>6 DEF IInv

LEMMA StutterInv ==
  ASSUME IInv, UNCHANGED vars
  PROVE  IInv'
<1>1. UNCHANGED <<pc, item, port, accepts, context, listed, receiving, sends, receiver, lock,
                  stop, left, failed, released>>
  BY DEF vars, sockets, history
<1>2. InPort' = InPort /\ Unique(port')
  BY <1>1 DEF InPort, Unique, IInv, SingleInv
<1>3. TypeOK'
  BY <1>1, TypeParts, TypeStep DEF IInv
<1>4. sends' > 0 => receiver # None
  BY <1>1 DEF IInv, PortInv
<1> QED
  BY <1>1, <1>2, <1>3, <1>4, PortGains DEF IInv

LEMMA StepInv == IInv /\ [Next]_vars => IInv'
<1> SUFFICES ASSUME IInv, [Next]_vars PROVE IInv'
  OBVIOUS
<1>1. CASE \/ \E c \in Clients : Connect(c) \/ ReceiveCompletes(c)
           \/ SendCompletes
  BY <1>1, ArrivalsInv
<1>2. ASSUME NEW w \in Workers, Worker(w) \/ HandlesError(w) PROVE IInv'
  <2>1. CASE HandlesError(w)
    BY <2>1, DisconnectedInv, HandleErrorFailsInv DEF HandlesError
  <2>2. CASE NextCompletion(w) \/ GetCompletion(w)
    BY <2>2, NextCompletionInv, GetCompletionInv
  <2>3. CASE DoAccept(w) \/ PostFirstReceive(w) \/ PostAccept(w)
    BY <2>3, DoAcceptInv, PostFirstReceiveInv, PostAcceptInv
  <2>4. CASE AddToContextList(w) \/ RegisterReceiver(w)
    BY <2>4, AddedInv
  <2>5. CASE EnterSend(w) \/ PostSendFails(w) \/ PostSend(w)
    BY <2>5, SendInv
  <2>6. CASE DoReceive(w) \/ PostReceive(w) \/ DoSendComplete(w)
    BY <2>6, DoReceiveInv, PostReceiveInv, DoSendCompleteInv
  <2> QED
    BY <1>2, <2>1, <2>2, <2>3, <2>4, <2>5, <2>6 DEF Worker, Handles
<1>3. CASE Stop
  BY <1>3, StopInv
<1>4. CASE StopReturns
  BY <1>4, StopReturnsInv
<1>5. CASE UNCHANGED vars
  BY <1>5, StutterInv
<1> QED
  BY <1>1, <1>2, <1>3, <1>4, <1>5 DEF Next

(* The invariant holds in every state. *)
THEOREM InductiveInvariant == Spec => []IInv
<1> QED
  BY InitInv, StepInv, PTL DEF Spec

(* The variables have their types. *)
THEOREM TypeCorrect == Spec => []TypeOK
<1>1. IInv => TypeOK
  BY DEF IInv
<1> QED
  BY <1>1, InductiveInvariant, PTL

(* A context that is listed, received into or in a worker's hands was not  *)
(* deleted, whatever the order in which the workers accept a client,       *)
(* handle its data and end its connection.                                 *)
THEOREM ContextsAlwaysInUse == Spec => []ContextsInUse
<1>1. ASSUME IInv PROVE ContextsInUse
  <2>1. ASSUME NEW c \in Clients, Uses(c) PROVE context[c] = "live"
    <3>1. ClientInv(c)
      BY <1>1 DEF IInv
    <3>2. CASE Received(c) \/ c \in listed
      BY <3>1, <3>2 DEF ClientInv
    <3>3. CASE \E w \in Workers :
                 pc[w] \in {"associated", "register", "add"} /\ item[w].client = c
      BY <3>1, <3>3 DEF ClientInv
    <3> QED
      BY <2>1, <3>2, <3>3 DEF Uses, Received, InPort
  <2>2. receiver # None /\ ~released => context[receiver] = "live"
    BY <1>1, TypeParts DEF IInv, ClientInv
  <2> QED
    BY <2>1, <2>2 DEF ContextsInUse
<1> QED
  BY <1>1, InductiveInvariant, PTL
-----------------------------------------------------------------------------
(* AcceptsKept: an accept is posted, in the port, in the hands of one      *)
(* worker or counted as failed, and each step moves one at most.           *)

InHands == {w \in Workers : HasAccept(w)}
AcceptsAt(s) == {i \in DOMAIN s : s[i].op = "accept"}
Queued == AcceptsAt(port)

LEMMA AcceptsAtFinite ==
  ASSUME NEW s \in Seq(Completions)
  PROVE  /\ IsFiniteSet(AcceptsAt(s)) /\ Cardinality(AcceptsAt(s)) \in Nat
         /\ AcceptsAt(s) \subseteq 1 .. Len(s)
<1>1. IsFiniteSet(1 .. Len(s)) /\ AcceptsAt(s) \subseteq 1 .. Len(s)
  BY FS_Interval DEF AcceptsAt
<1> QED
  BY <1>1, FS_Subset, FS_CardinalityType

LEMMA QueuedGains ==
  ASSUME port \in Seq(Completions), NEW x \in Completions, port' = Append(port, x)
  PROVE  Cardinality(Queued') =
           IF x.op = "accept" THEN Cardinality(Queued) + 1 ELSE Cardinality(Queued)
<1>1. /\ DOMAIN port' = 1 .. Len(port) + 1 /\ DOMAIN port = 1 .. Len(port)
      /\ Len(port) \in Nat
      /\ \A i \in 1 .. Len(port) : port'[i] = port[i]
      /\ port'[Len(port) + 1] = x
  OBVIOUS
<1>2. Queued' = IF x.op = "accept" THEN Queued \cup {Len(port) + 1} ELSE Queued
  BY <1>1 DEF Queued, AcceptsAt
<1>3. Len(port) + 1 \notin Queued
  BY <1>1 DEF Queued, AcceptsAt
<1> QED
  BY <1>2, <1>3, AcceptsAtFinite, FS_AddElement DEF Queued

LEMMA QueuedLoses ==
  ASSUME port \in Seq(Completions), port # << >>, port' = Tail(port)
  PROVE  Cardinality(Queued') =
           IF Head(port).op = "accept" THEN Cardinality(Queued) - 1 ELSE Cardinality(Queued)
<1>1. /\ port' \in Seq(Completions)
      /\ DOMAIN port' = 1 .. Len(port) - 1 /\ DOMAIN port = 1 .. Len(port)
      /\ Len(port) \in Nat \ {0}
      /\ \A i \in 1 .. Len(port) - 1 : port'[i] = port[i + 1]
      /\ Head(port) = port[1]
  OBVIOUS
<1> DEFINE rest == Queued \ {1}
           f == [i \in rest |-> i - 1]
<1>2. \A i : i \in rest <=> i \in 2 .. Len(port) /\ port[i].op = "accept"
  BY <1>1 DEF Queued, AcceptsAt
<1>3. \A i : i \in Queued' <=> i \in 1 .. Len(port) - 1 /\ port[i + 1].op = "accept"
  BY <1>1 DEF Queued, AcceptsAt
<1> HIDE DEF rest
<1>4. f \in Bijection(rest, Queued')
  <2>1. \A i \in rest : f[i] = i - 1 /\ i - 1 \in Queued' /\ i \in Nat
    BY <1>1, <1>2, <1>3
  <2>2. \A j \in Queued' : j + 1 \in rest /\ f[j + 1] = j
    BY <1>1, <1>2, <1>3
  <2>3. f \in [rest -> Queued']
    BY <2>1
  <2>4. \A i, j \in rest : f[i] = f[j] => i = j
    BY <2>1
  <2> HIDE DEF f
  <2> QED
    BY <2>2, <2>3, <2>4 DEF Bijection, Injection, Surjection, IsInjective
<1>5. /\ IsFiniteSet(Queued)
      /\ IsFiniteSet(rest)
      /\ Cardinality(rest) = IF 1 \in Queued THEN Cardinality(Queued) - 1
                             ELSE Cardinality(Queued)
  BY AcceptsAtFinite, FS_RemoveElement DEF Queued, rest
<1>6. Cardinality(Queued') = Cardinality(rest)
  <2>1. ExistsBijection(rest, Queued')
    BY <1>4 DEF ExistsBijection
  <2> QED
    BY <1>5, <2>1, FS_Bijection
<1>7. 1 \in Queued <=> Head(port).op = "accept"
  BY <1>1 DEF Queued, AcceptsAt
<1> QED
  BY <1>5, <1>6, <1>7

LEMMA QueuedExits ==
  ASSUME port \in Seq(Completions), NEW n \in Nat, port' = port \o Exits(n)
  PROVE  Queued' = Queued
<1> DEFINE e == Exits(n)
<1>1. e \in Seq(Completions) /\ Len(e) = n /\ \A i \in 1 .. n : e[i] = Exit
  BY CompletionFacts DEF Exits
<1> HIDE DEF e
<1>2. port' = port \o e /\ Len(port) \in Nat /\ DOMAIN port = 1 .. Len(port)
  BY DEF e
<1>3. /\ DOMAIN (port \o e) = 1 .. Len(port) + n
      /\ \A i \in 1 .. Len(port) : (port \o e)[i] = port[i]
      /\ \A i \in Len(port) + 1 .. Len(port) + n : (port \o e)[i] = e[i - Len(port)]
  BY <1>1, ConcatFacts
<1>4. \A i \in Len(port) + 1 .. Len(port) + n : port'[i].op # "accept"
  <2>1. \A i \in Len(port) + 1 .. Len(port) + n : i - Len(port) \in 1 .. n
    BY <1>2
  <2> QED
    BY <1>1, <1>2, <1>3, <2>1, CompletionFacts
<1> QED
  BY <1>2, <1>3, <1>4 DEF Queued, AcceptsAt

(* A step of worker w changes nobody else's hands. *)
LEMMA HandsStep ==
  ASSUME NEW w \in Workers,
         \A v \in Workers \ {w} : pc'[v] = pc[v] /\ item'[v] = item[v]
  PROVE  /\ Cardinality(InHands) \in Nat
         /\ Cardinality(InHands') =
              IF HasAccept(w) <=> HasAccept(w)' THEN Cardinality(InHands)
              ELSE IF HasAccept(w) THEN Cardinality(InHands) - 1
              ELSE Cardinality(InHands) + 1
<1>1. IsFiniteSet(InHands) /\ Cardinality(InHands) \in Nat
  BY PiggyAssumption, FS_Subset, FS_CardinalityType DEF InHands
<1>2. \A v \in Workers \ {w} : HasAccept(v)' <=> HasAccept(v)
  BY DEF HasAccept, Taken
<1>3. InHands' = IF HasAccept(w)' THEN InHands \cup {w} ELSE InHands \ {w}
  BY <1>2 DEF InHands
<1>4. w \in InHands <=> HasAccept(w)
  BY DEF InHands
<1> QED
  BY <1>1, <1>3, <1>4, FS_AddElement, FS_RemoveElement

Counted == accepts + failed + Cardinality(InHands) + Cardinality(Queued)

LEMMA StepKeepsAccepts ==
  ASSUME IInv, Next, stop # "returned", stop' # "returned"
  PROVE  Counted' = Counted
<1>1. /\ port \in Seq(Completions) /\ pc \in [Workers -> Steps]
      /\ item \in [Workers -> Completions] /\ accepts \in Nat /\ failed \in Nat
  BY TypeParts DEF IInv
<1>2. Cardinality(Queued) \in Nat /\ Cardinality(InHands) \in Nat
  <2>1. IsFiniteSet(InHands)
    BY PiggyAssumption, FS_Subset DEF InHands
  <2> QED
    BY <1>1, <2>1, AcceptsAtFinite, FS_CardinalityType DEF Queued
<1>3. ASSUME UNCHANGED <<pc, item>> PROVE InHands' = InHands
  BY <1>3 DEF InHands, HasAccept, Taken
<1>4. ASSUME UNCHANGED port PROVE Queued' = Queued
  BY <1>4 DEF Queued, AcceptsAt
<1>5. ASSUME NEW w \in Workers, NEW step, Go(w, step)
      PROVE  /\ pc'[w] = step
             /\ \A v \in Workers \ {w} : pc'[v] = pc[v]
  BY <1>1, <1>5 DEF Go
<1>6. ASSUME NEW w \in Workers, NEW step, Go(w, step), UNCHANGED <<item, port>>,
             LET keeps == (step = "taken" /\ item[w].op = "accept") \/ step \in AcceptSteps
             IN \/ UNCHANGED <<accepts, failed>> /\ (HasAccept(w) <=> keeps)
                \/ /\ HasAccept(w) /\ ~keeps
                   /\ \/ accepts' = accepts + 1 /\ failed' = failed
                      \/ accepts' = accepts /\ failed' = failed + 1
      PROVE  Counted' = Counted
  <2>1. HasAccept(w)' <=> (step = "taken" /\ item[w].op = "accept") \/ step \in AcceptSteps
    BY <1>5, <1>6 DEF HasAccept, Taken, AcceptSteps
  <2>2. \A v \in Workers \ {w} : pc'[v] = pc[v] /\ item'[v] = item[v]
    BY <1>5, <1>6
  <2>3. Cardinality(Queued') = Cardinality(Queued)
    BY <1>4, <1>6
  <2>4. CASE UNCHANGED <<accepts, failed>> /\ (HasAccept(w) <=> HasAccept(w)')
    <3>1. Cardinality(InHands') = Cardinality(InHands)
      BY <2>2, <2>4, HandsStep
    <3> QED
      BY <2>3, <2>4, <3>1 DEF Counted
  <2>5. ASSUME HasAccept(w) /\ ~HasAccept(w)',
               \/ accepts' = accepts + 1 /\ failed' = failed
               \/ accepts' = accepts /\ failed' = failed + 1
        PROVE  Counted' = Counted
    <3>1. Cardinality(InHands') = Cardinality(InHands) - 1
      BY <2>2, <2>5, HandsStep
    <3> QED
      BY <1>1, <1>2, <2>3, <2>5, <3>1 DEF Counted
  <2> QED
    BY <1>6, <2>1, <2>4, <2>5
<1>7. ASSUME NEW c \in Clients, Connect(c) PROVE Counted' = Counted
  <2> DEFINE x == Completion("accept", c)
  <2>1. x \in Completions /\ x.op = "accept"
    BY CompletionFacts
  <2>2. /\ accepts > 0 /\ accepts' = accepts - 1 /\ failed' = failed
        /\ port' = Append(port, x) /\ UNCHANGED <<pc, item>>
    BY <1>7 DEF Connect, history
  <2> HIDE DEF x
  <2>3. Cardinality(Queued') = Cardinality(Queued) + 1
    BY <1>1, <2>1, <2>2, QueuedGains
  <2> QED
    BY <1>1, <1>2, <1>3, <2>2, <2>3 DEF Counted
<1>8. ASSUME NEW x \in Completions, x.op # "accept", port' = Append(port, x),
             UNCHANGED <<pc, item, accepts, failed>>
      PROVE  Counted' = Counted
  <2>1. Cardinality(Queued') = Cardinality(Queued)
    BY <1>1, <1>8, QueuedGains
  <2> QED
    BY <1>3, <1>8, <2>1 DEF Counted
<1>9. ASSUME NEW c \in Clients, ReceiveCompletes(c) PROVE Counted' = Counted
  BY <1>8, <1>9, CompletionFacts DEF ReceiveCompletes, history
<1>10. CASE SendCompletes
  <2>1. receiver \in Clients
    BY <1>10, TypeParts DEF SendCompletes, IInv, PortInv
  <2> QED
    BY <1>8, <1>10, <2>1, CompletionFacts DEF SendCompletes, history
<1>11. ASSUME NEW w \in Workers, NextCompletion(w) PROVE Counted' = Counted
  <2>1. pc[w] = "loop" /\ pc'[w] \in {"port", "ended"}
    BY <1>5, <1>11 DEF NextCompletion
  <2>2. \A v \in Workers \ {w} : pc'[v] = pc[v] /\ item'[v] = item[v]
    BY <1>1, <1>5, <1>11 DEF NextCompletion
  <2>3. Cardinality(InHands') = Cardinality(InHands)
    BY <2>1, <2>2, HandsStep DEF HasAccept, Taken, AcceptSteps
  <2> QED
    BY <1>4, <1>11, <2>3 DEF NextCompletion, Counted, sockets, history
<1>12. ASSUME NEW w \in Workers, GetCompletion(w) PROVE Counted' = Counted
  <2>1. /\ pc[w] = "port" /\ port # << >> /\ port' = Tail(port)
        /\ item'[w] = Head(port)
        /\ pc'[w] = IF Head(port) = Exit THEN "ended" ELSE "taken"
        /\ UNCHANGED <<accepts, failed>>
    BY <1>1, <1>5, <1>12 DEF GetCompletion, sockets, history
  <2>2. \A v \in Workers \ {w} : pc'[v] = pc[v] /\ item'[v] = item[v]
    BY <1>1, <1>5, <1>12 DEF GetCompletion
  <2>3. ~HasAccept(w) /\ (HasAccept(w)' <=> Head(port).op = "accept")
    BY <2>1, CompletionFacts DEF HasAccept, Taken, AcceptSteps
  <2>4. Cardinality(InHands') = IF Head(port).op = "accept" THEN Cardinality(InHands) + 1
                                ELSE Cardinality(InHands)
    BY <2>2, <2>3, HandsStep
  <2>5. Cardinality(Queued') = IF Head(port).op = "accept" THEN Cardinality(Queued) - 1
                               ELSE Cardinality(Queued)
    BY <1>1, <2>1, QueuedLoses
  <2> QED
    BY <1>1, <1>2, <2>1, <2>4, <2>5 DEF Counted
<1>13. ASSUME NEW w \in Workers, HandlesError(w) PROVE Counted' = Counted
  <2>1. \E step \in {"loop", "ended"} : Go(w, step)
    BY <1>13 DEF HandlesError, Disconnected, HandleErrorFails
  <2>2. /\ pc[w] = "taken" /\ UNCHANGED <<item, port, accepts>>
        /\ failed' = IF item[w].op = "accept" THEN failed + 1 ELSE failed
    BY <1>13 DEF HandlesError, Disconnected, HandleErrorFails, AcceptLost, sockets
  <2> QED
    BY <1>1, <1>6, <2>1, <2>2 DEF HasAccept, Taken, AcceptSteps
<1>14. ASSUME NEW w \in Workers, DoAccept(w) PROVE Counted' = Counted
  <2>1. pc[w] = "taken" /\ item[w].op = "accept" /\ UNCHANGED <<item, port, accepts>>
    BY <1>14 DEF DoAccept, Taken
  <2>2. \/ (\E step \in {"associated", "register"} : Go(w, step)) /\ failed' = failed
        \/ Go(w, "loop") /\ failed' = failed + 1
    BY <1>14 DEF DoAccept
  <2> QED
    BY <1>1, <1>6, <2>1, <2>2 DEF HasAccept, Taken, AcceptSteps
<1>15. ASSUME NEW w \in Workers, PostFirstReceive(w) PROVE Counted' = Counted
  <2>1. pc[w] = "associated" /\ UNCHANGED <<item, port, accepts>>
    BY <1>15 DEF PostFirstReceive
  <2>2. \/ Go(w, "add") /\ failed' = failed
        \/ Go(w, "loop") /\ failed' = failed + 1
    BY <1>15 DEF PostFirstReceive
  <2> QED
    BY <1>1, <1>6, <2>1, <2>2 DEF HasAccept, Taken, AcceptSteps
<1>16. ASSUME NEW w \in Workers, AddToContextList(w) \/ RegisterReceiver(w)
       PROVE  Counted' = Counted
  <2>1. /\ pc[w] \in {"add", "register"} /\ Go(w, "repost")
        /\ UNCHANGED <<item, port, accepts, failed>>
    BY <1>16 DEF AddToContextList, RegisterReceiver, history
  <2> QED
    BY <1>1, <1>6, <2>1 DEF HasAccept, Taken, AcceptSteps
<1>17. ASSUME NEW w \in Workers, PostAccept(w) PROVE Counted' = Counted
  <2>1. pc[w] = "repost" /\ Go(w, "loop") /\ UNCHANGED <<item, port>>
    BY <1>17 DEF PostAccept
  <2>2. \/ accepts' = accepts + 1 /\ failed' = failed
        \/ accepts' = accepts /\ failed' = failed + 1
    BY <1>17 DEF PostAccept
  <2> QED
    BY <1>1, <1>6, <2>1, <2>2 DEF HasAccept, Taken, AcceptSteps
<1>18. ASSUME NEW w \in Workers,
              DoReceive(w) \/ EnterSend(w) \/ PostSendFails(w) \/ PostSend(w)
                \/ PostReceive(w) \/ DoSendComplete(w)
       PROVE  Counted' = Counted
  <2>1. /\ \/ pc[w] = "taken" /\ item[w].op # "accept"
           \/ pc[w] \in {"enter", "sending", "receive"}
        /\ UNCHANGED <<item, port, accepts, failed>>
    BY <1>18 DEF DoReceive, EnterSend, PostSendFails, PostSend, PostReceive, DoSendComplete,
       Taken, sockets, history
  <2>2. \E step \in {"enter", "sending", "receive", "loop"} : Go(w, step)
    BY <1>18 DEF DoReceive, EnterSend, PostSendFails, PostSend, PostReceive, DoSendComplete
  <2> QED
    BY <1>1, <1>6, <2>1, <2>2 DEF HasAccept, Taken, AcceptSteps
<1>19. CASE Stop
  <2>1. /\ port' = port \o Exits(Cardinality(Workers))
        /\ UNCHANGED <<pc, item, accepts, failed>>
    BY <1>19 DEF Stop, sockets, history
  <2>2. Queued' = Queued
    BY <1>1, <2>1, QueuedExits, PiggyAssumption, FS_CardinalityType
  <2> QED
    BY <1>3, <2>1, <2>2 DEF Counted
<1>20. ~StopReturns
  BY DEF StopReturns
<1> QED
  BY <1>7, <1>9, <1>10, <1>11, <1>12, <1>13, <1>14, <1>15, <1>16, <1>17, <1>18, <1>19, <1>20
     DEF Next, Worker, Handles

LEMMA KeptCounts == AcceptsKept <=> (stop # "returned" => MaxAccepts = Counted)
  BY DEF AcceptsKept, Counted, InHands, Queued, AcceptsAt

(* The number of accepts posted, in the port and in hands goes down by one *)
(* with each counted failure and by nothing else, until Stop has returned, *)
(* with any number of workers and clients.                                 *)
THEOREM AcceptsAlwaysKept == Spec => []AcceptsKept
<1>1. Init => AcceptsKept
  <2> SUFFICES ASSUME Init PROVE MaxAccepts = Counted
    BY KeptCounts
  <2>1. InHands = {} /\ Queued = {}
    BY DEF Init, InHands, Queued, AcceptsAt, HasAccept, Taken, AcceptSteps
  <2> QED
    BY <2>1, FS_EmptySet, PiggyAssumption DEF Init, Counted
<1>2. IInv /\ AcceptsKept /\ [Next]_vars => AcceptsKept'
  <2> SUFFICES ASSUME IInv, AcceptsKept, [Next]_vars PROVE AcceptsKept'
    OBVIOUS
  <2>1. CASE UNCHANGED vars
    BY <2>1 DEF vars, sockets, history, AcceptsKept, HasAccept, Taken
  <2>2. CASE Next /\ stop' = "returned"
    BY <2>2 DEF AcceptsKept
  <2>3. CASE Next /\ stop' # "returned"
    <3>1. stop # "returned"
      <4>1. stop' = stop \/ Stop \/ StopReturns
        BY <2>3 DEF Next, Worker, Handles, HandlesError, Connect, ReceiveCompletes,
           SendCompletes, NextCompletion, GetCompletion, DoAccept, PostFirstReceive,
           AddToContextList, RegisterReceiver, PostAccept, DoReceive, EnterSend,
           PostSendFails, PostSend, PostReceive, DoSendComplete, Disconnected,
           HandleErrorFails
      <4> QED
        BY <2>3, <4>1 DEF Stop, StopReturns
    <3>2. MaxAccepts = Counted
      BY <3>1, KeptCounts
    <3>3. MaxAccepts = Counted'
      BY <2>3, <3>1, <3>2, StepKeepsAccepts
    <3>4. AcceptsKept' <=> (stop' # "returned" => MaxAccepts = Counted')
      BY DEF AcceptsKept, Counted, InHands, Queued, AcceptsAt
    <3> QED
      BY <3>3, <3>4
  <2> QED
    BY <2>1, <2>2, <2>3
<1> QED
  BY <1>1, <1>2, InductiveInvariant, PTL DEF Spec
=============================================================================
