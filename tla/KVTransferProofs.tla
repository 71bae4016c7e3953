--------------------------- MODULE KVTransferProofs ---------------------------
(***************************************************************************)
(* What the methods of the sender keep, for any number of chunks, pages    *)
(* and any window: the engine reads only chunks the sender started, and a  *)
(* sender becomes terminal only when the engine has let go of all of them. *)
(***************************************************************************)
EXTENDS KVTransfer, FiniteSetTheorems, TLAPS

Marks == {"idle", "registered", "done", "failed"}

Senders(P) ==
  [st : {"NONE", "WAITING_FOR_INPUT", "TRANSFERRING", "SUCCESS", "FAILED"},
   pages : Seq(P), started : SUBSET Nat, pending : Seq(Nat), num : Nat,
   fail : BOOLEAN, timed : BOOLEAN]

(* x is a record with the fields F.                                        *)
Record(x, F) == DOMAIN x = F /\ x = [f \in F |-> x[f]]

Shape(x) == Record(x, {"room", "look", "src", "dst", "snd", "rcv"})

(* The engine may read none of the chunks.                                 *)
NoneRegistered(x) == \A c \in DOMAIN x.src : x.src[c] # "registered"

(* The sender of a transfer with the chunks C, from the pages P.           *)
SenderInv(x, C, P) ==
  /\ Shape(x) /\ x.snd \in Senders(P) /\ IsFiniteSet(x.snd.started)
  /\ x.src \in [C -> Marks]
  /\ \A c \in C : x.src[c] = "registered" => c \in x.snd.started
  /\ x.snd.st \in {"NONE", "WAITING_FOR_INPUT"} => x.snd.started = {}
  /\ x.snd.st \in Terminal => NoneRegistered(x)
  /\ \A c \in x.snd.started : c < Len(x.snd.pages)
  /\ \A i \in 1..Len(x.snd.pending) : x.snd.pending[i] < Len(x.snd.pages)
------------------------------------------------------------------------------
(* The operations of the sender.                                           *)

(* y differs from x in nothing the invariant of the sender looks at.       *)
SameSender(x, y) == Shape(y) /\ y.snd = x.snd /\ y.src = x.src

(* What does not touch the sending side keeps its invariant.               *)
LEMMA SameSenderKeeps ==
  ASSUME NEW x, NEW y, NEW C, NEW P, SenderInv(x, C, P), SameSender(x, y)
  PROVE  SenderInv(y, C, P)
BY DEF SenderInv, SameSender, NoneRegistered

(* Finishing, once the engine has let go of every chunk.                   *)
LEMMA FinishInv ==
  ASSUME NEW x, NEW C, NEW P, SenderInv(x, C, P), NEW st \in Terminal, NoneRegistered(x)
  PROVE  LET y == SenderFinish(x, st)
         IN  /\ SenderInv(y, C, P) /\ y.src = x.src
             /\ y.snd.pages = x.snd.pages /\ y.snd.started = x.snd.started
             /\ y.snd.fail = x.snd.fail /\ y.snd.st \in Terminal
BY ZenonT(40) DEF SenderInv, SenderFinish, pop_room, Shape, Record, Senders, Terminal,
                  NoneRegistered

(* request_abort of the sender: it is terminal only if the engine was      *)
(* given nothing; else the failure is noted and the chunks stay.           *)
LEMMA AbortInv ==
  ASSUME NEW x, NEW C, NEW P, SenderInv(x, C, P)
  PROVE  LET y == SenderAbort(x)
         IN  /\ SenderInv(y, C, P) /\ y.src = x.src
             /\ y.snd.pages = x.snd.pages /\ y.snd.started = x.snd.started
             /\ x.snd.fail => y.snd.fail
             /\ x.snd.st \notin Terminal => y.snd.fail
             /\ x.snd.st = "TRANSFERRING" => y.snd.st = "TRANSFERRING"
<1> DEFINE z == [x EXCEPT !.snd.fail = TRUE]
<1>1. CASE x.snd.st \in Terminal \/ x.snd.fail
  BY <1>1 DEF SenderAbort
<1>2. CASE ~(x.snd.st \in Terminal \/ x.snd.fail)
  <2>1. /\ SenderInv(z, C, P) /\ z.src = x.src /\ z.snd.pages = x.snd.pages
        /\ z.snd.started = x.snd.started /\ z.snd.fail /\ z.snd.st = x.snd.st
    BY Zenon DEF SenderInv, Shape, Record, Senders, NoneRegistered
  <2>2. CASE x.snd.st = "TRANSFERRING"
    BY <1>2, <2>1, <2>2 DEF SenderAbort
  <2>3. CASE x.snd.st # "TRANSFERRING"
    <3>1. x.snd.st \in {"NONE", "WAITING_FOR_INPUT"}
      BY <1>2, <2>3 DEF SenderInv, Senders, Terminal
    <3>2. NoneRegistered(z)
      BY <2>1, <3>1 DEF SenderInv, NoneRegistered
    <3>3. SenderAbort(x) = SenderFinish(z, "FAILED")
      BY <1>2, <2>3 DEF SenderAbort
    <3> HIDE DEF z
    <3>4. "FAILED" \in Terminal
      BY DEF Terminal
    <3> QED BY <2>1, <2>3, <3>2, <3>3, <3>4, FinishInv
  <2> QED BY <2>2, <2>3
<1> QED BY <1>1, <1>2

(* Min and Max of two integers.                                            *)
LEMMA MinMaxOfTwo ==
  ASSUME NEW a \in Int, NEW b \in Int
  PROVE  /\ Min({a, b}) \in {a, b} /\ Min({a, b}) <= a /\ Min({a, b}) <= b
         /\ Max({a, b}) \in {a, b} /\ Max({a, b}) >= a /\ Max({a, b}) >= b
<1>1. \E m \in {a, b} : \A y \in {a, b} : m <= y
  <2>1. CASE a <= b BY <2>1
  <2>2. CASE b <= a BY <2>2
  <2> QED BY <2>1, <2>2
<1>2. \E m \in {a, b} : \A y \in {a, b} : m >= y
  <2>1. CASE a >= b BY <2>1
  <2>2. CASE b >= a BY <2>2
  <2> QED BY <2>1, <2>2
<1>3. Min({a, b}) \in {a, b} /\ \A y \in {a, b} : Min({a, b}) <= y
  BY <1>1 DEF Min
<1>4. Max({a, b}) \in {a, b} /\ \A y \in {a, b} : Max({a, b}) >= y
  BY <1>2 DEF Max
<1> QED BY <1>3, <1>4

(* The window never lets more chunks start than wait, and it lets the      *)
(* first one of a transfer start.                                          *)
LEMMA RoomBound ==
  ASSUME NEW x, NEW C, NEW P, SenderInv(x, C, P)
  PROVE  /\ Room(x) \in Nat /\ Room(x) <= Len(x.snd.pending)
         /\ x.snd.started = {} /\ x.snd.pending # <<>> => Room(x) # 0
<1> DEFINE n == Len(x.snd.pending)
           w == Window - Cardinality(Active(x))
<1>1. n \in Nat /\ n \in Int /\ (x.snd.pending # <<>> => n > 0)
  BY DEF SenderInv, Senders
<1>2. IsFiniteSet(Active(x))
  BY FS_Subset DEF SenderInv, Active
<1>3. w \in Int
  BY <1>2, FS_CardinalityType, WindowAssumption
<1>4. x.snd.started = {} => w > 0
  BY FS_EmptySet, WindowAssumption DEF Active
<1>5. Room(x) = Max({0, Min({n, w})})
  BY DEF Room
<1> HIDE DEF n, w
<1> DEFINE m == Min({n, w})
<1>6. m \in {n, w} /\ m <= n /\ m <= w
  BY <1>1, <1>3, MinMaxOfTwo, Zenon
<1>7. m \in Int
  BY <1>1, <1>3, <1>6
<1> HIDE DEF m
<1>8. Room(x) \in {0, m} /\ Room(x) >= 0 /\ Room(x) >= m
  <2>1. 0 \in Int
    OBVIOUS
  <2>2. Max({0, m}) \in {0, m} /\ Max({0, m}) >= 0 /\ Max({0, m}) >= m
    BY <1>7, <2>1, MinMaxOfTwo, Zenon
  <2> QED BY <1>5, <2>2 DEF m
<1>9. Room(x) \in Nat /\ Room(x) <= n
  BY <1>1, <1>6, <1>7, <1>8
<1>10. x.snd.started = {} /\ x.snd.pending # <<>> => Room(x) # 0
  BY <1>1, <1>3, <1>4, <1>6, <1>8
<1> QED BY <1>9, <1>10 DEF n

(* What is left of a sequence without its first n elements.                *)
LEMMA RestOfSeq ==
  ASSUME NEW S, NEW s \in Seq(S), NEW n \in Nat, n <= Len(s)
  PROVE  LET t == SubSeq(s, n + 1, Len(s))
         IN  /\ t \in Seq(S) /\ Len(t) = Len(s) - n
             /\ \A i \in 1..Len(t) : t[i] = s[i + n]
<1> DEFINE t == SubSeq(s, n + 1, Len(s))
<1>1. t \in Seq(S)
  OBVIOUS
<1>2. Len(t) = Len(s) - n
  OBVIOUS
<1>3. \A i \in 1..Len(t) : t[i] = s[i + n]
  BY <1>2
<1> QED BY <1>1, <1>2, <1>3, SMTT(30)

(* Registering the next n waiting chunks with the engine.                  *)
LEMMA RegisterInv ==
  ASSUME NEW x, NEW C, NEW P, SenderInv(x, C, P), NEW n \in Nat, n <= Len(x.snd.pending),
         x.snd.st \in {"WAITING_FOR_INPUT", "TRANSFERRING"}
  PROVE  LET y == register_read(x, n)
         IN  /\ SenderInv(y, C, P) /\ y.snd.pages = x.snd.pages
             /\ y.snd.started = x.snd.started \cup Upcoming(x, n)
             /\ y.snd.fail = x.snd.fail /\ y.snd.st \in {"WAITING_FOR_INPUT", "TRANSFERRING"}
             /\ n # 0 => y.snd.started # {}
             /\ x.snd.st = "TRANSFERRING" \/ n # 0 => y.snd.st = "TRANSFERRING"
<1>1. CASE n = 0
  <2>1. Upcoming(x, n) = {}
    BY <1>1 DEF Upcoming
  <2> QED BY <1>1, <2>1 DEF register_read
<1>2. CASE n # 0
  <2> DEFINE U == Upcoming(x, n)
             y == register_read(x, n)
             p == SubSeq(x.snd.pending, n + 1, Len(x.snd.pending))
             s == [c \in DOMAIN x.src |-> IF c \in U THEN "registered" ELSE x.src[c]]
  <2>1. x.snd.pending \in Seq(Nat) /\ Len(x.snd.pending) \in Nat
    BY DEF SenderInv, Senders
  <2>2. /\ U \subseteq Nat /\ \A c \in U : c < Len(x.snd.pages)
        /\ x.snd.pending[1] \in U
    <3>1. \A i \in 1..n : x.snd.pending[i] \in Nat /\ x.snd.pending[i] < Len(x.snd.pages)
      <4>1. \A i \in 1..n : i \in 1..Len(x.snd.pending)
        BY <2>1
      <4>2. \A i \in 1..Len(x.snd.pending) : x.snd.pending[i] < Len(x.snd.pages)
        BY DEF SenderInv
      <4>3. \A i \in 1..Len(x.snd.pending) : x.snd.pending[i] \in Nat
        BY <2>1, SMTT(30)
      <4> QED BY <4>1, <4>2, <4>3
    <3>2. 1 \in 1..n
      BY <1>2
    <3> QED BY <3>1, <3>2 DEF Upcoming
  <2>3. IsFiniteSet(U)
    <3> DEFINE f == [i \in 1..n |-> x.snd.pending[i]]
    <3>1. f \in Surjection(1..n, U)
      BY DEF Surjection, Upcoming
    <3>2. IsFiniteSet(1..n)
      BY FS_Interval
    <3> QED BY <3>1, <3>2, FS_Surjection
  <2>4. IsFiniteSet(x.snd.started \cup U)
    BY <2>3, FS_Union, Zenon DEF SenderInv
  <2>5. p \in Seq(Nat) /\ \A i \in 1..Len(p) : p[i] < Len(x.snd.pages)
    <3>1. /\ p \in Seq(Nat) /\ Len(p) = Len(x.snd.pending) - n
          /\ \A i \in 1..Len(p) : p[i] = x.snd.pending[i + n]
      BY <2>1, RestOfSeq, Zenon
    <3>2. \A i \in 1..Len(p) : i + n \in 1..Len(x.snd.pending)
      BY <2>1, <3>1
    <3>3. \A i \in 1..Len(x.snd.pending) : x.snd.pending[i] < Len(x.snd.pages)
      BY DEF SenderInv
    <3> HIDE DEF p
    <3> QED BY <3>1, <3>2, <3>3
  <2>6. s \in [C -> Marks] /\ \A c \in C : s[c] = "registered" => c \in x.snd.started \cup U
    <3>1. /\ x.src \in [C -> Marks] /\ DOMAIN x.src = C
          /\ \A c \in C : x.src[c] = "registered" => c \in x.snd.started
      BY DEF SenderInv
    <3> HIDE DEF U
    <3>3. s \in [C -> Marks]
      BY <3>1 DEF Marks
    <3>4. \A c \in C : s[c] = "registered" => c \in x.snd.started \cup U
      BY <3>1
    <3> QED BY <3>3, <3>4
  <2>7. y = [x EXCEPT !.src = s, !.snd.started = @ \cup U, !.snd.pending = p,
                      !.snd.st = "TRANSFERRING", !.snd.timed = TRUE]
    BY <1>2 DEF register_read
  <2> HIDE DEF U, y, p, s
  <2>8. /\ Shape(y) /\ y.src = s /\ y.snd \in Senders(P)
        /\ y.snd.started = x.snd.started \cup U /\ y.snd.pending = p
        /\ y.snd.pages = x.snd.pages /\ y.snd.st = "TRANSFERRING"
        /\ y.snd.fail = x.snd.fail
    BY <2>2, <2>5, <2>7, ZenonT(40) DEF SenderInv, Senders, Shape, Record
  <2>9. SenderInv(y, C, P)
    BY <2>2, <2>4, <2>5, <2>6, <2>8, Zenon DEF SenderInv, Terminal
  <2> QED BY <2>2, <2>8, <2>9 DEF U, y
<1> QED BY <1>1, <1>2

(* Publishing chunks changes the room only.                                *)
LEMMA PublishSame ==
  ASSUME NEW x, Shape(x), NEW K
  PROVE  SameSender(x, register_transfer(x, K))
BY DEF SameSender, register_transfer, Shape, Record

(* n chunks are with the engine, those of K are published.                 *)
LEMMA HandInv ==
  ASSUME NEW x, NEW C, NEW P, SenderInv(x, C, P), NEW n \in Nat, n <= Len(x.snd.pending), NEW K,
         x.snd.st \in {"WAITING_FOR_INPUT", "TRANSFERRING"}
  PROVE  LET y == register_transfer(register_read(x, n), K)
         IN  /\ SenderInv(y, C, P) /\ y.snd.pages = x.snd.pages
             /\ x.snd.started \subseteq y.snd.started
             /\ y.snd.fail = x.snd.fail /\ y.snd.st \notin Terminal
             /\ n # 0 => y.snd.started # {}
             /\ x.snd.st = "TRANSFERRING" \/ n # 0 => y.snd.st = "TRANSFERRING"
<1> DEFINE z == register_read(x, n)
           y == register_transfer(z, K)
<1>1. /\ SenderInv(z, C, P) /\ z.snd.pages = x.snd.pages
      /\ x.snd.started \subseteq z.snd.started
      /\ z.snd.fail = x.snd.fail /\ z.snd.st \in {"WAITING_FOR_INPUT", "TRANSFERRING"}
      /\ n # 0 => z.snd.started # {}
      /\ x.snd.st = "TRANSFERRING" \/ n # 0 => z.snd.st = "TRANSFERRING"
  BY RegisterInv
<1> HIDE DEF z
<1>2. SameSender(z, y)
  BY <1>1, PublishSame DEF SenderInv
<1> HIDE DEF y
<1>3. SenderInv(y, C, P) /\ y.snd = z.snd
  BY <1>1, <1>2, SameSenderKeeps DEF SameSender
<1>4. z.snd.st \notin Terminal
  BY <1>1 DEF Terminal
<1> QED BY <1>1, <1>3, <1>4 DEF y, z

(* Every outcome of _pump_pending_chunks.                                  *)
LEMMA PumpInv ==
  ASSUME NEW x, NEW C, NEW P, SenderInv(x, C, P), NEW o \in Pump(x),
         x.snd.st \in {"WAITING_FOR_INPUT", "TRANSFERRING"}
  PROVE  /\ SenderInv(o.x, C, P) /\ o.x.snd.pages = x.snd.pages
         /\ x.snd.started \subseteq o.x.snd.started
         /\ x.snd.fail \/ ~o.ok => o.x.snd.fail
         /\ ~x.snd.fail /\ x.snd.pending # <<>> /\ o.ok => o.x.snd.started # {}
         /\ x.snd.st = "TRANSFERRING" => o.x.snd.st = "TRANSFERRING"
<1> DEFINE idle == x.snd.st \in Terminal \/ x.snd.fail \/ Room(x) = 0
           gone == Rejects(x, x.snd.pending[1])
           upto == IF gone THEN 1 ELSE Room(x)
           handed(n) == Handed(x, n)
           bare(n) == register_transfer(register_read(x, n), Upcoming(x, n - 1))
<1>1. x.snd.st \notin Terminal
  BY DEF Terminal
<1>2. Room(x) \in Nat /\ Room(x) <= Len(x.snd.pending) /\ Len(x.snd.pending) \in Nat
  <2>1. Len(x.snd.pending) \in Nat
    BY DEF SenderInv, Senders
  <2> QED BY <2>1, RoomBound
<1>3. CASE idle
  <2>1. o = [x |-> x, ok |-> TRUE, faults |-> 0]
    BY <1>3 DEF Pump
  <2>2. o.x = x /\ o.ok
    BY <2>1
  <2>3. ~x.snd.fail /\ x.snd.pending # <<>> => x.snd.started # {}
    BY <1>1, <1>3, RoomBound
  <2> QED BY <2>2, <2>3
<1>4. CASE ~idle
  <2>1. \/ o = [x |-> handed(Room(x)), ok |-> TRUE, faults |-> 0]
        \/ \E n \in 1..upto : o = [x |-> SenderAbort(handed(n - 1)), ok |-> FALSE, faults |-> 1]
        \/ \E n \in 1..upto : o = [x |-> SenderAbort(bare(n)), ok |-> FALSE,
                                   faults |-> IF gone THEN 0 ELSE 1]
    BY <1>4 DEF Pump
  <2>2. \A n \in 1..upto : n \in Nat /\ n - 1 \in Nat /\ n <= Room(x) /\ n - 1 <= Room(x)
    BY <1>2, <1>4
  <2> HIDE DEF idle, gone, upto
  <2>3. ASSUME NEW n \in Nat, n <= Room(x)
        PROVE  /\ SenderInv(handed(n), C, P) /\ handed(n).snd.pages = x.snd.pages
               /\ x.snd.started \subseteq handed(n).snd.started
               /\ handed(n).snd.fail = x.snd.fail /\ handed(n).snd.st \notin Terminal
               /\ n # 0 => handed(n).snd.started # {}
               /\ x.snd.st = "TRANSFERRING" => handed(n).snd.st = "TRANSFERRING"
    <3>1. n <= Len(x.snd.pending)
      BY <1>2, <2>3
    <3> QED BY <3>1, HandInv DEF Handed
  <2>4. ASSUME NEW n \in Nat, n <= Room(x)
        PROVE  /\ SenderInv(bare(n), C, P) /\ bare(n).snd.pages = x.snd.pages
               /\ x.snd.started \subseteq bare(n).snd.started
               /\ bare(n).snd.st \notin Terminal
               /\ x.snd.st = "TRANSFERRING" => bare(n).snd.st = "TRANSFERRING"
    <3>1. n <= Len(x.snd.pending)
      BY <1>2, <2>4
    <3> QED BY <3>1, HandInv
  <2> HIDE DEF handed, bare
  <2>5. CASE o = [x |-> handed(Room(x)), ok |-> TRUE, faults |-> 0]
    <3>1. o.x = handed(Room(x)) /\ o.ok
      BY <2>5
    <3>2. Room(x) # 0 /\ ~x.snd.fail
      BY <1>4 DEF idle
    <3>3. Room(x) <= Room(x)
      BY <1>2
    <3> QED BY <1>2, <2>3, <3>1, <3>2, <3>3
  <2>6. ASSUME NEW n \in 1..upto,
               o = [x |-> SenderAbort(handed(n - 1)), ok |-> FALSE, faults |-> 1]
        PROVE  /\ SenderInv(o.x, C, P) /\ o.x.snd.pages = x.snd.pages
               /\ x.snd.started \subseteq o.x.snd.started
               /\ o.x.snd.fail /\ ~o.ok
               /\ x.snd.st = "TRANSFERRING" => o.x.snd.st = "TRANSFERRING"
    <3>1. o.x = SenderAbort(handed(n - 1)) /\ ~o.ok
      BY <2>6
    <3> DEFINE h == handed(n - 1)
    <3>2. /\ SenderInv(h, C, P) /\ h.snd.pages = x.snd.pages
          /\ x.snd.started \subseteq h.snd.started /\ h.snd.st \notin Terminal
          /\ x.snd.st = "TRANSFERRING" => h.snd.st = "TRANSFERRING"
      BY <2>2, <2>3
    <3> HIDE DEF h
    <3> QED BY <3>1, <3>2, AbortInv DEF h
  <2>7. ASSUME NEW n \in 1..upto,
               o = [x |-> SenderAbort(bare(n)), ok |-> FALSE,
                    faults |-> IF gone THEN 0 ELSE 1]
        PROVE  /\ SenderInv(o.x, C, P) /\ o.x.snd.pages = x.snd.pages
               /\ x.snd.started \subseteq o.x.snd.started
               /\ o.x.snd.fail /\ ~o.ok
               /\ x.snd.st = "TRANSFERRING" => o.x.snd.st = "TRANSFERRING"
    <3>1. o.x = SenderAbort(bare(n)) /\ ~o.ok
      BY <2>7
    <3>2. /\ SenderInv(bare(n), C, P) /\ bare(n).snd.pages = x.snd.pages
          /\ x.snd.started \subseteq bare(n).snd.started /\ bare(n).snd.st \notin Terminal
          /\ x.snd.st = "TRANSFERRING" => bare(n).snd.st = "TRANSFERRING"
      BY <2>2, <2>4
    <3> QED BY <3>1, <3>2, AbortInv
  <2> QED BY <2>1, <2>5, <2>6, <2>7
<1> QED BY <1>3, <1>4

(* The elements of a sequence with one appended.                           *)
LEMMA AppendedSeq ==
  ASSUME NEW S, NEW s \in Seq(S), NEW e \in S
  PROVE  LET t == Append(s, e)
         IN  /\ t \in Seq(S) /\ t # <<>> /\ Len(t) = Len(s) + 1
             /\ \A i \in 1..Len(s) : t[i] = s[i]
             /\ t[Len(t)] = e
<1> DEFINE t == Append(s, e)
<1>1. t \in Seq(S) /\ Len(t) = Len(s) + 1 /\ Len(s) \in Nat
  OBVIOUS
<1>2. \A i \in 1..Len(s) : t[i] = s[i]
  OBVIOUS
<1>3. t[Len(s) + 1] = e
  OBVIOUS
<1> HIDE DEF t
<1>4. t # <<>>
  BY <1>1
<1> QED BY <1>1, <1>2, <1>3, <1>4 DEF t

(* Appending adds the element to the range.                                *)
LEMMA RangeOfAppend ==
  ASSUME NEW S, NEW s \in Seq(S), NEW e \in S
  PROVE  Range(Append(s, e)) = Range(s) \cup {e}
<1> DEFINE t == Append(s, e)
<1>1. /\ t \in Seq(S) /\ Len(t) = Len(s) + 1 /\ t[Len(t)] = e
      /\ \A i \in 1..Len(s) : t[i] = s[i]
  BY AppendedSeq
<1>2. Len(s) \in Nat /\ DOMAIN s = 1..Len(s)
  OBVIOUS
<1> HIDE DEF t
<1>3. DOMAIN t = 1..Len(t)
  BY <1>1
<1>4. /\ \A i \in 1..Len(t) : i \in 1..Len(s) \/ i = Len(t)
      /\ \A i \in 1..Len(s) : i \in 1..Len(t)
      /\ Len(t) \in 1..Len(t)
  BY <1>1, <1>2
<1>5. Range(t) = Range(s) \cup {e}
  BY <1>1, <1>2, <1>3, <1>4, SMTT(30) DEF Range
<1> QED BY <1>5 DEF t

(* send_chunk: the page joins the pages of the sender, behind the pages of *)
(* the chunks before it.                                                   *)
LEMMA SendChunkInv ==
  ASSUME NEW x, NEW C, NEW P, SenderInv(x, C, P), NEW c \in Nat, NEW p \in P,
         NEW is_final, NEW o \in SendChunk(x, c, p, is_final),
         ~x.snd.fail => c = Len(x.snd.pages)
  PROVE  /\ SenderInv(o.x, C, P)
         /\ o.x.snd.pages = x.snd.pages \/ o.x.snd.pages = Append(x.snd.pages, p)
         /\ o.ok /\ ~o.x.snd.fail => Len(o.x.snd.pages) = c + 1
         /\ ~o.ok /\ ~o.x.snd.fail => o.x.snd.pages = x.snd.pages
         /\ x.snd.started \subseteq o.x.snd.started
         /\ o.ok => o.x.snd.started # {}
<1> DEFINE refused == \/ x.snd.st \notin {"WAITING_FOR_INPUT", "TRANSFERRING"}
                      \/ x.snd.fail \/ x.snd.num # 0
           y == [x EXCEPT !.snd.pending = Append(@, c), !.snd.pages = Append(@, p),
                          !.snd.num = IF is_final THEN c + 1 ELSE 0]
<1>1. CASE refused
  <2>1. o = [x |-> x, ok |-> FALSE, faults |-> 0]
    BY <1>1 DEF SendChunk
  <2>2. o.x = x /\ ~o.ok
    BY <2>1
  <2> QED BY <2>2
<1>2. CASE ~refused
  <2>1. o \in Pump(y)
    BY <1>2 DEF SendChunk
  <2>2. ~x.snd.fail /\ c = Len(x.snd.pages) /\ x.snd.st \in {"WAITING_FOR_INPUT", "TRANSFERRING"}
    BY <1>2
  <2> DEFINE q == Append(x.snd.pending, c)
             g == Append(x.snd.pages, p)
  <2>3. /\ x.snd.pending \in Seq(Nat) /\ x.snd.pages \in Seq(P)
        /\ Len(x.snd.pending) \in Nat /\ Len(x.snd.pages) \in Nat
    BY DEF SenderInv, Senders
  <2>4. /\ q \in Seq(Nat) /\ q # <<>> /\ Len(q) = Len(x.snd.pending) + 1
        /\ \A i \in 1..Len(x.snd.pending) : q[i] = x.snd.pending[i]
        /\ q[Len(q)] = c
    BY <2>3, AppendedSeq, ZenonT(40)
  <2>5. /\ g \in Seq(P) /\ Len(g) = Len(x.snd.pages) + 1
        /\ \A i \in 1..Len(x.snd.pages) : g[i] = x.snd.pages[i]
        /\ g[Len(g)] = p
    BY <2>3, AppendedSeq
  <2> HIDE DEF q, g
  <2>6. /\ Shape(y) /\ y.src = x.src /\ y.snd \in Senders(P)
        /\ y.snd.pending = q /\ y.snd.pages = g /\ y.snd.started = x.snd.started
        /\ y.snd.st = x.snd.st /\ y.snd.fail = x.snd.fail
    <3> DEFINE m == IF is_final THEN c + 1 ELSE 0
    <3>1. m \in Nat
      OBVIOUS
    <3>2. y = [x EXCEPT !.snd.pending = q, !.snd.pages = g, !.snd.num = m]
      BY DEF q, g
    <3> HIDE DEF m, y
    <3> QED BY <2>4, <2>5, <3>1, <3>2, Zenon DEF SenderInv, Shape, Record, Senders
  <2> HIDE DEF y
  <2>7. \A i \in 1..Len(q) : q[i] < Len(g)
    <3>1. TAKE i \in 1..Len(q)
    <3>2. CASE i = Len(q)
      BY <2>2, <2>3, <2>4, <2>5, <3>2
    <3>3. CASE i # Len(q)
      <4>1. i \in 1..Len(x.snd.pending)
        BY <2>3, <2>4, <3>3, SMTT(30)
      <4>2. x.snd.pending[i] < Len(x.snd.pages) /\ x.snd.pending[i] \in Nat
        BY <2>3, <4>1, SMTT(30) DEF SenderInv
      <4>3. q[i] = x.snd.pending[i]
        BY <2>4, <4>1
      <4>4. Len(g) = Len(x.snd.pages) + 1 /\ Len(x.snd.pages) \in Nat
        BY <2>3, <2>5
      <4> QED BY <4>2, <4>3, <4>4, SMTT(30)
    <3> QED BY <3>2, <3>3
  <2>8. \A d \in x.snd.started : d < Len(g)
    <3>1. \A d \in x.snd.started : d \in Nat /\ d < Len(x.snd.pages)
      BY DEF SenderInv, Senders
    <3> QED BY <2>3, <2>5, <3>1
  <2>9. SenderInv(y, C, P)
    BY <2>6, <2>7, <2>8, SMTT(30) DEF SenderInv, NoneRegistered
  <2>10. /\ SenderInv(o.x, C, P) /\ o.x.snd.pages = g
         /\ ~o.ok => o.x.snd.fail
         /\ x.snd.started \subseteq o.x.snd.started
         /\ o.ok => o.x.snd.started # {}
    BY <2>1, <2>2, <2>4, <2>6, <2>9, PumpInv
  <2> QED BY <2>2, <2>5, <2>10 DEF g
<1> QED BY <1>1, <1>2

(* poll: the sender becomes terminal only when the engine is through.      *)
LEMMA PollInv ==
  ASSUME NEW x, NEW C, NEW P, SenderInv(x, C, P), NEW o \in SenderPoll(x)
  PROVE  /\ SenderInv(o.x, C, P) /\ o.x.snd.pages = x.snd.pages
         /\ x.snd.started \subseteq o.x.snd.started
         /\ x.snd.fail => o.x.snd.fail
<1> DEFINE seen == IF \E c \in x.snd.started : x.src[c] = "failed" THEN SenderAbort(x) ELSE x
           done(y) == /\ y.snd.pending = <<>> /\ y.snd.num # 0
                      /\ y.snd.started = 0..(y.snd.num - 1)
           settle(y) == IF ~Settled(y) THEN y
                        ELSE IF y.snd.fail THEN SenderFinish(y, "FAILED")
                        ELSE IF done(y) THEN SenderFinish(y, "SUCCESS")
                        ELSE IF y.snd.pending # <<>> THEN y
                        ELSE [y EXCEPT !.snd.timed = FALSE]
<1>1. CASE x.snd.st # "TRANSFERRING"
  <2>1. o = [x |-> x, faults |-> 0]
    BY <1>1 DEF SenderPoll
  <2> QED BY <2>1
<1>2. CASE x.snd.st = "TRANSFERRING"
  <2>1. PICK u \in Pump(seen) : o = [x |-> settle(u.x), faults |-> u.faults]
    BY <1>2 DEF SenderPoll
  <2>2. /\ SenderInv(seen, C, P) /\ seen.snd.pages = x.snd.pages
        /\ seen.snd.started = x.snd.started
        /\ x.snd.fail => seen.snd.fail
        /\ seen.snd.st = "TRANSFERRING"
    BY <1>2, AbortInv
  <2> DEFINE y == u.x
  <2>3. /\ SenderInv(y, C, P) /\ y.snd.pages = x.snd.pages
        /\ x.snd.started \subseteq y.snd.started
        /\ x.snd.fail => y.snd.fail
    <3> HIDE DEF seen
    <3> QED BY <2>2, PumpInv
  <2>4. o.x = settle(y)
    BY <2>1
  <2> HIDE DEF y
  <2>5. Settled(y) => NoneRegistered(y)
    BY <2>3 DEF Settled, NoneRegistered, SenderInv
  <2>6. CASE ~Settled(y)
    BY <2>3, <2>4, <2>6
  <2>7. CASE Settled(y) /\ (y.snd.fail \/ done(y))
    <3>1. "FAILED" \in Terminal /\ "SUCCESS" \in Terminal
      BY DEF Terminal
    <3>2. PICK st \in Terminal : o.x = SenderFinish(y, st)
      BY <2>4, <2>7, <3>1
    <3> QED BY <2>3, <2>5, <2>7, <3>2, FinishInv
  <2>8. CASE Settled(y) /\ ~y.snd.fail /\ ~done(y)
    <3> DEFINE z == [y EXCEPT !.snd.timed = FALSE]
    <3>1. o.x \in {y, z}
      BY <2>4, <2>8
    <3>2. /\ SenderInv(z, C, P) /\ z.snd.pages = y.snd.pages
          /\ z.snd.started = y.snd.started /\ z.snd.fail = y.snd.fail
      BY <2>3, ZenonT(40) DEF SenderInv, Shape, Record, Senders, NoneRegistered
    <3> QED BY <2>3, <3>1, <3>2, Zenon
  <2> QED BY <2>6, <2>7, <2>8
<1> QED BY <1>1, <1>2
------------------------------------------------------------------------------
(* The operations of the receiver leave the sender and its pages alone.    *)

(* Two such steps after another leave the sender alone.                    *)
LEMMA SameSenderTrans ==
  ASSUME NEW x, NEW y, NEW z, SameSender(x, y), SameSender(y, z)
  PROVE  SameSender(x, z)
BY DEF SameSender

(* The single operations of receiver and lookup.                           *)
LEMMA ReceiverStepSame ==
  ASSUME NEW x, Shape(x)
  PROVE  /\ SameSender(x, x) /\ SameSender(x, cleanup_transfer(x))
         /\ SameSender(x, poll_decode_metadata(x))
         /\ \A pages : SameSender(x, try_start_decode(x, pages))
         /\ SameSender(x, Merge(x)) /\ SameSender(x, AskAgain(x))
         /\ \A K : SameSender(x, start_read(x, K))
         /\ \A st : SameSender(x, ReceiverFinish(x, st))
<1>1. \A rcv : SameSender(x, [x EXCEPT !.rcv = rcv])
  BY DEF SameSender, Shape, Record
<1>2. \A look : SameSender(x, [x EXCEPT !.look = look])
  BY DEF SameSender, Shape, Record
<1>3. SameSender(x, x)
  BY DEF SameSender
<1>4. SameSender(x, cleanup_transfer(x))
  BY Zenon DEF SameSender, Shape, Record, cleanup_transfer, pop_room
<1>5. SameSender(x, poll_decode_metadata(x))
  BY <1>2 DEF poll_decode_metadata
<1>6. \A pages : SameSender(x, try_start_decode(x, pages))
  BY Zenon DEF SameSender, Shape, Record, try_start_decode
<1>7. SameSender(x, Merge(x))
  BY <1>3, Zenon DEF SameSender, Shape, Record, Merge
<1>8. SameSender(x, AskAgain(x))
  BY DEF SameSender, Shape, Record, AskAgain
<1>9. \A K : SameSender(x, start_read(x, K))
  BY Zenon DEF SameSender, Shape, Record, start_read
<1>10. \A st : SameSender(x, ReceiverFinish(x, st))
  BY <1>3, Zenon DEF SameSender, Shape, Record, ReceiverFinish, cleanup_transfer, pop_room
<1> QED BY <1>3, <1>4, <1>5, <1>6, <1>7, <1>8, <1>9, <1>10

(* request_abort of the receiver.                                          *)
LEMMA ReceiverAbortSame ==
  ASSUME NEW x, Shape(x)
  PROVE  SameSender(x, ReceiverAbort(x))
<1> DEFINE y == [x EXCEPT !.rcv.fail = TRUE]
<1>1. SameSender(x, y)
  BY Zenon DEF SameSender, Shape, Record
<1>2. SameSender(y, ReceiverFinish(y, "FAILED"))
  BY <1>1, ReceiverStepSame, Zenon DEF SameSender
<1>3. ReceiverAbort(x) \in {x, y, ReceiverFinish(y, "FAILED")}
  BY DEF ReceiverAbort
<1> HIDE DEF y
<1> QED BY <1>1, <1>2, <1>3, ReceiverStepSame, SameSenderTrans

(* Starting reads, and what follows it.                                    *)
LEMMA StartReadSame ==
  ASSUME NEW x, Shape(x), NEW K
  PROVE  /\ SameSender(x, AskAgain(start_read(x, K)))
         /\ SameSender(x, ReceiverAbort(start_read(x, K)))
<1>1. SameSender(x, start_read(x, K))
  BY ReceiverStepSame, SMTT(60)
<1> DEFINE z == start_read(x, K)
<1>2. SameSender(x, z) /\ Shape(z)
  BY <1>1, SMTT(60) DEF SameSender
<1> HIDE DEF z
<1>3. SameSender(z, AskAgain(z)) /\ SameSender(z, ReceiverAbort(z))
  BY <1>2, ReceiverStepSame, ReceiverAbortSame, SMTT(60)
<1>4. SameSender(x, AskAgain(z)) /\ SameSender(x, ReceiverAbort(z))
  BY <1>2, <1>3, SameSenderTrans, SMTT(60)
<1> QED BY <1>4 DEF z

(* Every outcome of _discover_and_start_chunks.                            *)
LEMMA DiscoverSame ==
  ASSUME NEW x, Shape(x), NEW o \in Discover(x)
  PROVE  SameSender(x, o.x)
<1> DEFINE m == Merge(x)
<1>1. SameSender(x, m) /\ Shape(m)
  BY ReceiverStepSame, SMTT(60) DEF SameSender
<1>2. \/ o.x = x
      \/ o.x = ReceiverAbort(m)
      \/ \E K : o.x = AskAgain(start_read(m, K))
      \/ \E K : o.x = ReceiverAbort(start_read(m, K))
  BY SMTT(60) DEF Discover
<1> HIDE DEF m
<1>3. CASE o.x = x
  BY <1>3, ReceiverStepSame, SMTT(60)
<1>4. CASE o.x = ReceiverAbort(m)
  BY <1>1, <1>4, ReceiverAbortSame, SameSenderTrans, SMTT(60)
<1>5. CASE \E K : o.x = AskAgain(start_read(m, K))
  <2> PICK K : o.x = AskAgain(start_read(m, K))
    BY <1>5
  <2> QED BY <1>1, StartReadSame, SameSenderTrans, SMTT(60)
<1>6. CASE \E K : o.x = ReceiverAbort(start_read(m, K))
  <2> PICK K : o.x = ReceiverAbort(start_read(m, K))
    BY <1>6
  <2> QED BY <1>1, StartReadSame, SameSenderTrans, SMTT(60)
<1> QED BY <1>2, <1>3, <1>4, <1>5, <1>6

(* Every outcome of a poll of the receiver.                                *)
LEMMA ReceiverPollSame ==
  ASSUME NEW x, Shape(x), NEW o \in ReceiverPoll(x)
  PROVE  SameSender(x, o.x)
<1>1. SameSender(x, Begun(x)) /\ Shape(Begun(x))
  BY SMTT(60) DEF SameSender, Shape, Record, Begun
<1>2. o.x = x \/ \E u \in Discover(Begun(x)) : o.x = Ended(Seen(u.x))
  BY SMTT(60) DEF ReceiverPoll
<1>3. CASE o.x = x
  BY <1>3, ReceiverStepSame, SMTT(60)
<1>4. CASE \E u \in Discover(Begun(x)) : o.x = Ended(Seen(u.x))
  <2>1. PICK u \in Discover(Begun(x)) : o.x = Ended(Seen(u.x))
    BY <1>4
  <2>2. SameSender(Begun(x), u.x)
    BY <1>1, DiscoverSame, SMTT(60)
  <2>3. SameSender(x, u.x) /\ Shape(u.x)
    BY <1>1, <2>2, SameSenderTrans, SMTT(60) DEF SameSender
  <2>4. Seen(u.x) \in {u.x, ReceiverAbort(u.x)}
    BY SMTT(60) DEF Seen
  <2>5. SameSender(x, Seen(u.x)) /\ Shape(Seen(u.x))
    BY <2>3, <2>4, ReceiverAbortSame, SameSenderTrans, SMTT(60) DEF SameSender
  <2>6. \/ Ended(Seen(u.x)) = Seen(u.x)
        \/ \E st : Ended(Seen(u.x)) = ReceiverFinish(Seen(u.x), st)
    BY SMTT(60) DEF Ended
  <2>7. SameSender(Seen(u.x), Ended(Seen(u.x)))
    BY <2>5, <2>6, ReceiverStepSame, SMTT(60)
  <2> QED BY <2>1, <2>5, <2>7, SameSenderTrans, SMTT(60)
<1> QED BY <1>2, <1>3, <1>4
==============================================================================
