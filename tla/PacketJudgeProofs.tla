-------------------------- MODULE PacketJudgeProofs --------------------------
(***************************************************************************)
(* Proofs about PacketJudge, for any layouts of any frames: the headers    *)
(* that are put to the rules are those of the datagram, with the listed    *)
(* exceptions, and what a table denies never arrives in one piece.         *)
(* The inductive invariant says where the pointer is when each header is   *)
(* about to be read, and that the buffer it is in has no end before it.    *)
(***************************************************************************)
EXTENDS PacketJudge, WellFoundedInduction, TLAPS

(* The buffer that the pointer is in has at least one more byte. *)
CursorOK == /\ buffer \in ends /\ pointer \in Nat /\ pointer < buffer
            /\ \A e \in ends : e <= pointer \/ e >= buffer

StepsOK ==
  /\ pc \in {"ether", "ip", "transp"} => CursorOK
  /\ pc = "ether" => pointer = 0 /\ asked = NotAsked
  /\ pc = "ip" => pointer = Size.ether /\ asked = NotAsked
  /\ pc = "transp" => /\ dgram.type = "ip" /\ dgram.ip = "allow" /\ ~IsLater
                      /\ pointer = TranspAt

(* When the first fragment is through, the tables allow the datagram. *)
FirstOK == 1 \in through /\ Proper => Allowed

IInv == TypeOK /\ StepsOK /\ FirstOK /\ JudgesItsHeaders
-----------------------------------------------------------------------------
(* Min of the community modules, of any set of naturals. *)
LEMMA MinIsLeast ==
  ASSUME NEW S, S \subseteq Nat, S # {}
  PROVE  Min(S) \in S /\ \A y \in S : Min(S) <= y
PROOF
<1>1. PICK x \in S : \A y \in S : ~ (<<y, x>> \in OpToRel(<, Nat))
  BY WFMin, NatLessThanWellFounded
<1>2. \A y \in S : x <= y
  <2>1. ASSUME NEW y \in S, y < x PROVE FALSE
    <3>1. <<y, x>> \in Nat \X Nat /\ <<y, x>>[1] < <<y, x>>[2]
      BY <2>1
    <3>2. <<y, x>> \in OpToRel(<, Nat)
      BY <3>1, Zenon DEF OpToRel
    <3>. QED
      BY <1>1, <3>2
  <2>. QED
    BY <2>1
<1>. QED
  BY <1>2 DEF Min

LEMMA HeaderLength == TypeOK => hdr_len \in Nat
PROOF
<1>1. TypeOK => dgram.ip_hl \in HeaderLengths
  BY DEF TypeOK, Datagrams
<1>2. \A n \in HeaderLengths : n * 4 \in Nat
  BY LayoutAssumption
<1>. QED
  BY <1>1, <1>2 DEF hdr_len

(* A header that begins at the pointer is in one buffer when it is not     *)
(* longer than what is left of that buffer, and only then.                 *)
LEMMA InOneBuffer ==
  ASSUME TypeOK, CursorOK, NEW n \in Nat
  PROVE  /\ n <= buffer_len => Readable(pointer, n)
         /\ n > buffer_len => ~Readable(pointer, n)
PROOF
<1>. buffer \in Nat /\ pointer \in Nat /\ ends \subseteq Nat
  BY DEF TypeOK, CursorOK
<1>1. n <= buffer_len => Readable(pointer, n)
  BY DEF CursorOK, Readable, buffer_len
<1>2. n > buffer_len => ~Readable(pointer, n)
  BY DEF CursorOK, Readable, buffer_len
<1>. QED
  BY <1>1, <1>2

(* Behind a header that is all in its buffer, the pointer is at the next   *)
(* one, or the frame ends there.                                           *)
LEMMA Stepped ==
  ASSUME TypeOK, CursorOK, NEW n \in Nat, n <= buffer_len,
         NEW h \in {"ip", "transp"}, StepOver(n, h), UNCHANGED frame
  PROVE  \/ pc' = h /\ pointer' = pointer + n /\ CursorOK'
         \/ pc' = "crashed" /\ EndsAt(pointer + n) /\ UNCHANGED <<buffer, pointer>>
PROOF
<1>. buffer \in Nat /\ pointer \in Nat /\ ends \subseteq Nat /\ ends' = ends
  BY DEF TypeOK, CursorOK, frame
<1>1. CASE Inside(n)
  <2>1. pointer' = pointer + n /\ pc' = h /\ buffer' = buffer
    BY <1>1 DEF StepOver
  <2>2. pointer + n < buffer
    BY <1>1 DEF Inside, buffer_len
  <2>. QED
    BY <2>1, <2>2 DEF CursorOK
<1>2. CASE ~Inside(n)
  <2>1. pointer + n = buffer
    BY <1>2 DEF Inside, buffer_len
  <2>2. CASE Beyond # {}
    <3>1. pointer' = buffer /\ buffer' = Min(Beyond) /\ pc' = h
      BY <1>2, <2>2 DEF StepOver
    <3>2. Beyond \subseteq Nat
      BY DEF Beyond
    <3>3. Min(Beyond) \in Beyond /\ \A e \in Beyond : Min(Beyond) <= e
      BY <2>2, <3>2, MinIsLeast
    <3>4. /\ buffer' \in ends /\ buffer' > buffer
          /\ \A e \in ends : e <= buffer \/ e >= buffer'
      BY <3>1, <3>3 DEF Beyond
    <3>. QED
      BY <2>1, <3>1, <3>4 DEF CursorOK
  <2>3. CASE Beyond = {}
    <3>1. pc' = "crashed" /\ UNCHANGED <<buffer, pointer>>
      BY <1>2, <2>3 DEF StepOver
    <3>2. \A e \in ends : e <= buffer
      BY <2>3 DEF Beyond
    <3>. QED
      BY <2>1, <3>1, <3>2 DEF EndsAt, CursorOK
  <2>. QED
    BY <2>2, <2>3
<1>. QED
  BY <1>1, <1>2

(* What is kept by every step that neither arrives nor asks nor judges.    *)
LEMMA SameFrame ==
  ASSUME UNCHANGED <<dgram, frame>>
  PROVE  /\ (Unreadable <=> Unreadable') /\ (Misread <=> Misread')
         /\ (Allowed <=> Allowed') /\ (Proper <=> Proper')
         /\ (IsLater <=> IsLater') /\ TranspAt' = TranspAt /\ hdr_len' = hdr_len
         /\ \A at, n : /\ Readable(at, n) <=> Readable(at, n)'
                       /\ Own(at, n) <=> Own(at, n)'
         /\ \A at : EndsAt(at) <=> EndsAt(at)'
PROOF
<1>. dgram' = dgram /\ nth' = nth /\ ends' = ends
  BY DEF frame
<1>1. hdr_len' = hdr_len /\ TranspAt' = TranspAt
  BY DEF hdr_len, TranspAt
<1>2. /\ Unreadable <=> Unreadable'
  BY <1>1 DEF Unreadable, Readable
<1>3. /\ (Misread <=> Misread') /\ (IsLater <=> IsLater')
  BY <1>1 DEF Misread, DFBit, Offset, IsLater
<1>4. (Allowed <=> Allowed') /\ (Proper <=> Proper')
  BY <1>1 DEF Allowed, Proper
<1>5. \A at, n : (Readable(at, n) <=> Readable(at, n)') /\ (Own(at, n) <=> Own(at, n)')
  BY <1>1 DEF Readable, Own
<1>6. \A at : EndsAt(at) <=> EndsAt(at)'
  BY DEF EndsAt
<1>. QED
  BY <1>1, <1>2, <1>3, <1>4, <1>5, <1>6
-----------------------------------------------------------------------------
(* The first conjunct of JudgesItsHeaders. *)
AskedOK ==
  asked # NotAsked =>
    /\ Readable(asked.at, Size[asked.table])
    /\ asked.table = "ip" => asked.at = Size.ether
    /\ asked.table # "ip" => Own(nth, asked.at) \/ Misread

(* A frame keeps its answer as long as it is the same frame. *)
LEMMA AskedSame ==
  ASSUME AskedOK, asked' = asked, UNCHANGED <<dgram, frame>>
  PROVE  AskedOK'
PROOF
<1>. dgram' = dgram /\ nth' = nth /\ ends' = ends /\ asked' = asked
  BY DEF frame
<1>. QED
  BY DEF AskedOK, Readable, Own, Misread, DFBit, Offset, hdr_len

(* A step that ends the judgement. *)
LEMMA JudgedKeeps ==
  ASSUME IInv, UNCHANGED <<dgram, frame>>, AskedOK',
         NEW v \in Verdicts \cup {"unknown"}, Judged(v),
         v # "allow" => Unreadable \/ Misread \/ (nth = 1 /\ ~Allowed),
         v = "allow" /\ nth = 1 /\ Proper => Allowed
  PROVE  IInv'
PROOF
<1>. dgram' = dgram /\ nth' = nth /\ ends' = ends /\ pc' = "judged" /\ result' = v
  BY DEF frame, Judged
<1>0. UNCHANGED <<buffer, pointer>>
  BY DEF Judged
<1>1. /\ v = "allow" => through' = through \cup {nth}
      /\ v # "allow" => through' = through
  BY DEF Judged
<1>2. TypeOK'
  <2>1. nth \in 1..dgram.fragments
    BY DEF IInv, TypeOK
  <2>2. through' \subseteq 1..dgram.fragments
    BY <1>1, <2>1 DEF IInv, TypeOK
  <2>. QED
    BY <1>0, <2>2 DEF IInv, TypeOK
<1>3. StepsOK'
  BY DEF StepsOK
<1>4. FirstOK'
  BY <1>1, SameFrame DEF IInv, FirstOK
<1>5. JudgesItsHeaders'
  BY SameFrame DEF JudgesItsHeaders, AskedOK
<1>. QED
  BY <1>2, <1>3, <1>4, <1>5 DEF IInv

(* A step to the next header. *)
LEMMA StepOverKeeps ==
  ASSUME IInv, CursorOK, UNCHANGED <<dgram, frame, result, through>>, AskedOK',
         NEW n \in Nat, n <= buffer_len, NEW h \in {"ip", "transp"}, StepOver(n, h),
         h = "ip" => pointer + n = Size.ether /\ asked' = NotAsked,
         h = "transp" => /\ dgram.type = "ip" /\ dgram.ip = "allow" /\ ~IsLater
                         /\ pointer + n = TranspAt
  PROVE  IInv'
PROOF
<1>. dgram' = dgram /\ nth' = nth /\ ends' = ends /\ result' = result /\ through' = through
  BY DEF frame
<1>1. \/ pc' = h /\ pointer' = pointer + n /\ CursorOK'
      \/ pc' = "crashed" /\ EndsAt(pointer + n) /\ UNCHANGED <<buffer, pointer>>
  BY Stepped DEF IInv
<1>2. TypeOK'
  <2>1. buffer' \in Nat \ {0} /\ pointer' \in Nat
    BY <1>1 DEF IInv, TypeOK, CursorOK
  <2>. QED
    BY <1>1, <2>1 DEF IInv, TypeOK
<1>3. StepsOK'
  BY <1>1, SameFrame DEF StepsOK
<1>4. FirstOK'
  BY SameFrame DEF IInv, FirstOK
<1>5. JudgesItsHeaders'
  <2>1. pc' = "crashed" => EndsAt(Size.ether)' \/ (dgram.type = "ip" /\ EndsAt(TranspAt)')
    BY <1>1, SameFrame
  <2>2. pc' # "judged"
    BY <1>1
  <2>. QED
    BY <2>1, <2>2 DEF JudgesItsHeaders, AskedOK
<1>. QED
  BY <1>2, <1>3, <1>4, <1>5 DEF IInv
-----------------------------------------------------------------------------
LEMMA InitInv == Init => IInv
PROOF
<1>. SUFFICES ASSUME Init PROVE IInv
  OBVIOUS
<1>1. dgram \in Datagrams /\ dgram.fragments \in Nat \ {0}
  BY LayoutAssumption DEF Init, Datagrams
<1>. QED
  BY <1>1 DEF Init, IInv, TypeOK, StepsOK, FirstOK, JudgesItsHeaders

LEMMA ArriveKeeps ==
  ASSUME IInv, Arrive
  PROVE  IInv'
PROOF
<1>1. PICK k \in 1..dgram.fragments, at \in Layouts :
        nth' = k /\ ends' = at \cup {packet_len(k)} /\ buffer' = Min(ends')
  BY DEF Arrive
<1>2. /\ pc' = "ether" /\ pointer' = 0 /\ asked' = NotAsked /\ result' = "unknown"
      /\ UNCHANGED <<dgram, through>>
  BY DEF Arrive
<1>3. packet_len(k) \in Nat \ {0}
  <2>1. hdr_len \in Nat
    BY HeaderLength DEF IInv
  <2>2. dgram.length \in Lengths
    BY DEF IInv, TypeOK, Datagrams
  <2>3. Size.ether = 14 /\ Unit \in Nat /\ dgram.length \in Nat \ {0}
    <3>1. Size.ether = 14
      BY DEF Size
    <3>2. Unit \in Nat
      BY LayoutAssumption
    <3>3. Lengths \subseteq Nat \ {0}
      BY LayoutAssumption
    <3>. QED
      BY <2>2, <3>1, <3>2, <3>3
  <2>4. Size.ether + hdr_len + 8 * Unit \in Nat \ {0}
    BY <2>1, <2>3
  <2>. QED
    BY <2>3, <2>4, Zenon DEF packet_len
<1>4. ends' \subseteq Nat \ {0} /\ ends' # {}
  <2>1. at \subseteq Nat \ {0}
    BY LayoutAssumption DEF Layouts
  <2>. QED
    BY <1>1, <1>3, <2>1
<1>5. buffer' \in ends' /\ \A e \in ends' : buffer' <= e
  BY <1>1, <1>4, MinIsLeast
<1>6. TypeOK'
  BY <1>1, <1>2, <1>4, <1>5 DEF IInv, TypeOK
<1>7. StepsOK'
  BY <1>2, <1>4, <1>5 DEF StepsOK, CursorOK
<1>8. FirstOK'
  BY <1>2 DEF IInv, FirstOK, Proper, Allowed, hdr_len
<1>9. JudgesItsHeaders'
  BY <1>2 DEF JudgesItsHeaders
<1>. QED
  BY <1>6, <1>7, <1>8, <1>9 DEF IInv

LEMMA ReadEtherKeeps ==
  ASSUME IInv, ReadEther
  PROVE  IInv'
PROOF
<1>1. /\ TypeOK /\ CursorOK /\ pointer = 0 /\ asked = NotAsked /\ asked' = asked
      /\ UNCHANGED <<dgram, frame>> /\ Size.ether \in Nat
  BY DEF IInv, StepsOK, ReadEther, Size
<1>2. AskedOK'
  BY <1>1 DEF AskedOK
<1>3. CASE buffer_len < Size.ether
  <2>1. Judged("unknown")
    BY <1>3 DEF ReadEther
  <2>2. Unreadable
    <3>1. Size.ether > buffer_len
      BY <1>1, <1>3 DEF CursorOK, buffer_len, TypeOK
    <3>. QED
      BY <1>1, <3>1, InOneBuffer DEF Unreadable
  <2>. QED
    BY <1>1, <1>2, <2>1, <2>2, JudgedKeeps
<1>4. CASE ~(buffer_len < Size.ether)
  <2>1. StepOver(Size.ether, "ip") /\ UNCHANGED <<result, through>>
    BY <1>4 DEF ReadEther
  <2>2. Size.ether <= buffer_len /\ pointer + Size.ether = Size.ether
    BY <1>1, <1>4 DEF CursorOK, buffer_len, TypeOK
  <2>. QED
    BY <1>1, <1>2, <2>1, <2>2, StepOverKeeps
<1>. QED
  BY <1>3, <1>4

LEMMA NotIPKeeps ==
  ASSUME IInv, NotIP
  PROVE  IInv'
PROOF
<1>1. /\ asked = NotAsked /\ asked' = asked /\ UNCHANGED <<dgram, frame>>
      /\ Judged("allow") /\ ~Proper
  BY DEF IInv, StepsOK, NotIP, Proper
<1>2. AskedOK'
  BY <1>1 DEF AskedOK
<1>. QED
  BY <1>1, <1>2, JudgedKeeps DEF Verdicts

LEMMA CutIPKeeps ==
  ASSUME IInv, CutIP
  PROVE  IInv'
PROOF
<1>1. /\ TypeOK /\ CursorOK /\ pointer = Size.ether /\ asked = NotAsked /\ asked' = asked
      /\ dgram.type = "ip" /\ IPCut /\ Judged("unknown") /\ UNCHANGED <<dgram, frame>>
  BY DEF IInv, StepsOK, CutIP, AtIP
<1>2. AskedOK'
  BY <1>1 DEF AskedOK
<1>3. Unreadable
  <2>1. buffer_len \in Nat /\ hdr_len \in Nat /\ Size.ip \in Nat
    BY <1>1, HeaderLength DEF CursorOK, buffer_len, TypeOK, Size
  <2>2. Size.ip > buffer_len \/ hdr_len > buffer_len
    BY <1>1, <2>1 DEF IPCut
  <2>3. ~Readable(Size.ether, Size.ip) \/ ~Readable(Size.ether, hdr_len)
    BY <1>1, <2>1, <2>2, InOneBuffer
  <2>. QED
    BY <1>1, <2>3 DEF Unreadable
<1>. QED
  BY <1>1, <1>2, <1>3, JudgedKeeps

LEMMA LaterFragmentKeeps ==
  ASSUME IInv, LaterFragment
  PROVE  IInv'
PROOF
<1>1. /\ asked = NotAsked /\ asked' = asked /\ UNCHANGED <<dgram, frame>>
      /\ Judged("allow") /\ IsLater
  BY DEF IInv, StepsOK, LaterFragment, AtIP
<1>2. AskedOK'
  BY <1>1 DEF AskedOK
<1>3. nth # 1
  BY <1>1, LayoutAssumption DEF IsLater, Offset
<1>. QED
  BY <1>1, <1>2, <1>3, JudgedKeeps DEF Verdicts

(* What is judged and is no later fragment is the first, or is misread. *)
LEMMA FirstOrMisread ==
  ASSUME TypeOK, ~IsLater
  PROVE  nth = 1 \/ Misread
PROOF
<1>1. nth \in Nat /\ nth >= 1
  BY LayoutAssumption DEF TypeOK, Datagrams
<1>2. nth > 1 => Offset(nth) # 0
  BY <1>1, LayoutAssumption DEF Offset
<1>. QED
  BY <1>1, <1>2 DEF IsLater, Misread

LEMMA AskIPKeeps ==
  ASSUME IInv, AskIP
  PROVE  IInv'
PROOF
<1>1. /\ TypeOK /\ CursorOK /\ pointer = Size.ether
      /\ asked' = [table |-> "ip", at |-> pointer]
      /\ dgram.type = "ip" /\ ~IPCut /\ ~IsLater /\ UNCHANGED <<dgram, frame>>
  BY DEF IInv, StepsOK, AskIP, AtIP
<1>2. /\ buffer_len \in Nat /\ hdr_len \in Nat /\ Size.ip \in Nat
      /\ Size.ip <= buffer_len /\ hdr_len <= buffer_len
  <2>1. buffer_len \in Nat /\ hdr_len \in Nat /\ Size.ip \in Nat
    BY <1>1, HeaderLength DEF CursorOK, buffer_len, TypeOK, Size
  <2>. QED
    BY <1>1, <2>1 DEF IPCut
<1>3. AskedOK'
  <2>1. Readable(Size.ether, Size.ip)
    BY <1>1, <1>2, InOneBuffer
  <2>2. Readable(Size.ether, Size.ip)'
    BY <1>1, <2>1 DEF frame, Readable
  <2>. QED
    BY <1>1, <2>2 DEF AskedOK
<1>4. CASE dgram.ip = "deny"
  <2>1. Judged("deny") /\ ~Allowed
    BY <1>1, <1>4 DEF AskIP, Allowed
  <2>2. nth = 1 \/ Misread
    BY <1>1, FirstOrMisread
  <2>. QED
    BY <1>1, <1>3, <2>1, <2>2, JudgedKeeps DEF Verdicts
<1>5. CASE dgram.ip # "deny"
  <2>1. StepOver(hdr_len, "transp") /\ UNCHANGED <<result, through>>
    BY <1>5 DEF AskIP
  <2>2. dgram.ip = "allow"
    BY <1>1, <1>5 DEF TypeOK, Datagrams, Verdicts
  <2>3. pointer + hdr_len = TranspAt
    BY <1>1 DEF TranspAt
  <2>. QED
    BY <1>1, <1>2, <1>3, <2>1, <2>2, <2>3, StepOverKeeps
<1>. QED
  BY <1>4, <1>5

LEMMA NoTableKeeps ==
  ASSUME IInv, NoTable
  PROVE  IInv'
PROOF
<1>1. /\ TypeOK /\ ~IsLater /\ dgram.type = "ip" /\ dgram.ip_p \notin Transports
      /\ AskedOK /\ asked' = asked /\ UNCHANGED <<dgram, frame>> /\ Judged("unknown")
  BY DEF IInv, StepsOK, NoTable, JudgesItsHeaders, AskedOK
<1>2. AskedOK'
  BY <1>1, AskedSame
<1>3. Misread \/ (nth = 1 /\ ~Allowed)
  BY <1>1, FirstOrMisread DEF Allowed
<1>. QED
  BY <1>1, <1>2, <1>3, JudgedKeeps

(* The header of the transport, when it is the datagram's own. *)
LEMMA CutTranspKeeps ==
  ASSUME IInv, CutTransp
  PROVE  IInv'
PROOF
<1>1. /\ TypeOK /\ CursorOK /\ ~IsLater /\ dgram.type = "ip" /\ dgram.ip_p \in Transports
      /\ pointer = TranspAt /\ buffer_len < Size[dgram.ip_p]
      /\ AskedOK /\ asked' = asked /\ UNCHANGED <<dgram, frame>> /\ Judged("unknown")
  BY DEF IInv, StepsOK, CutTransp, TranspCut, JudgesItsHeaders, AskedOK
<1>2. AskedOK'
  BY <1>1, AskedSame
<1>3. ~Readable(TranspAt, Size[dgram.ip_p])
  <2>1. Size[dgram.ip_p] \in Nat /\ buffer_len \in Nat
    BY <1>1 DEF Size, Transports, CursorOK, TypeOK, buffer_len
  <2>2. Size[dgram.ip_p] > buffer_len
    BY <1>1, <2>1
  <2>. QED
    BY <1>1, <2>1, <2>2, InOneBuffer
<1>4. Unreadable \/ Misread
  BY <1>1, <1>3, FirstOrMisread DEF Unreadable
<1>. QED
  BY <1>1, <1>2, <1>4, JudgedKeeps

LEMMA AskTranspKeeps ==
  ASSUME IInv, AskTransp
  PROVE  IInv'
PROOF
<1>1. /\ TypeOK /\ CursorOK /\ ~IsLater /\ dgram.type = "ip" /\ dgram.ip = "allow"
      /\ dgram.ip_p \in Transports /\ pointer = TranspAt /\ ~TranspCut
      /\ asked' = [table |-> dgram.ip_p, at |-> pointer] /\ UNCHANGED <<dgram, frame>>
  BY DEF IInv, StepsOK, AskTransp
<1>2. PICK v \in IF Own(nth, pointer) THEN {dgram.transp} ELSE Verdicts : Judged(v)
  BY DEF AskTransp
<1>3. v \in Verdicts /\ (Own(nth, pointer) => v = dgram.transp)
  BY <1>1, <1>2 DEF TypeOK, Datagrams
<1>4. Own(nth, pointer) \/ Misread
  <2>1. nth = 1 \/ Misread
    BY <1>1, FirstOrMisread
  <2>2. hdr_len \in Nat /\ Size.ip = 20
    BY <1>1, HeaderLength DEF Size
  <2>3. hdr_len >= Size.ip \/ Misread
    BY <1>1, <2>2 DEF Misread
  <2>. QED
    BY <1>1, <2>1, <2>3 DEF Own, TranspAt
<1>5. AskedOK'
  <2>1. Readable(pointer, Size[dgram.ip_p])
    <3>1. Size[dgram.ip_p] \in Nat /\ buffer_len \in Nat
      BY <1>1 DEF Size, Transports, CursorOK, TypeOK, buffer_len
    <3>2. Size[dgram.ip_p] <= buffer_len
      BY <1>1, <3>1 DEF TranspCut
    <3>. QED
      BY <1>1, <3>1, <3>2, InOneBuffer
  <2>2. asked'.table = dgram.ip_p /\ asked'.at = pointer /\ dgram.ip_p # "ip"
    BY <1>1 DEF Transports
  <2>3. Readable(pointer, Size[dgram.ip_p])' /\ pointer' = pointer
    BY <1>1, <1>2, <2>1 DEF Readable, frame, Judged
  <2>4. Own(nth, pointer)' \/ Misread'
    BY <1>1, <1>4, <2>3, SameFrame DEF Own, frame
  <2>. QED
    BY <1>1, <2>2, <2>3, <2>4 DEF AskedOK, Readable, Own
<1>6. v # "allow" => Unreadable \/ Misread \/ (nth = 1 /\ ~Allowed)
  BY <1>1, <1>3, <1>4 DEF Own, Allowed
<1>7. v = "allow" /\ nth = 1 /\ Proper => Allowed
  BY <1>1, <1>3 DEF Own, Proper, Allowed, TranspAt
<1>. QED
  BY <1>1, <1>2, <1>3, <1>5, <1>6, <1>7, JudgedKeeps

LEMMA ReturnKeeps ==
  ASSUME IInv, Return
  PROVE  IInv'
PROOF
<1>1. pc' = "idle" /\ UNCHANGED <<dgram, frame, buffer, pointer, asked, result, through>>
  BY DEF Return
<1>2. TypeOK' /\ StepsOK'
  BY <1>1 DEF IInv, TypeOK, StepsOK, frame
<1>3. FirstOK'
  BY <1>1, SameFrame DEF IInv, FirstOK
<1>4. JudgesItsHeaders'
  <2>1. AskedOK'
    BY <1>1, AskedSame DEF IInv, JudgesItsHeaders, AskedOK
  <2>. QED
    BY <1>1, <2>1, SameFrame DEF IInv, JudgesItsHeaders, AskedOK
<1>. QED
  BY <1>2, <1>3, <1>4 DEF IInv

LEMMA StutterKeeps ==
  ASSUME IInv, UNCHANGED vars
  PROVE  IInv'
PROOF
<1>1. UNCHANGED <<dgram, frame, pc, buffer, pointer, asked, result, through>>
  BY DEF vars
<1>2. TypeOK' /\ StepsOK'
  BY <1>1, SameFrame DEF IInv, TypeOK, StepsOK, CursorOK, frame
<1>3. FirstOK'
  BY <1>1, SameFrame DEF IInv, FirstOK
<1>4. JudgesItsHeaders'
  <2>1. AskedOK'
    BY <1>1, AskedSame DEF IInv, JudgesItsHeaders, AskedOK
  <2>2. pc' = "judged" /\ result' # "allow" => Unreadable' \/ Misread' \/ (nth = 1 /\ ~Allowed)'
    BY <1>1, SameFrame DEF IInv, JudgesItsHeaders, frame
  <2>3. pc' = "crashed" => EndsAt(Size.ether)' \/ (dgram.type = "ip" /\ EndsAt(TranspAt))'
    BY <1>1 DEF IInv, JudgesItsHeaders, frame, EndsAt, TranspAt, hdr_len
  <2>. QED
    BY <2>1, <2>2, <2>3 DEF JudgesItsHeaders, AskedOK
<1>. QED
  BY <1>2, <1>3, <1>4 DEF IInv
-----------------------------------------------------------------------------
(* The inductive invariant of the cursor and the fragments. *)
THEOREM Invariance == Spec => []IInv
PROOF
<1>1. Init => IInv
  BY InitInv
<1>2. IInv /\ [Next]_vars => IInv'
  <2>. SUFFICES ASSUME IInv, [Next]_vars PROVE IInv'
    OBVIOUS
  <2>1. CASE Arrive
    BY <2>1, ArriveKeeps
  <2>2. CASE ReadEther
    BY <2>2, ReadEtherKeeps
  <2>3. CASE NotIP
    BY <2>3, NotIPKeeps
  <2>4. CASE CutIP
    BY <2>4, CutIPKeeps
  <2>5. CASE LaterFragment
    BY <2>5, LaterFragmentKeeps
  <2>6. CASE AskIP
    BY <2>6, AskIPKeeps
  <2>7. CASE NoTable
    BY <2>7, NoTableKeeps
  <2>8. CASE CutTransp
    BY <2>8, CutTranspKeeps
  <2>9. CASE AskTransp
    BY <2>9, AskTranspKeeps
  <2>10. CASE Return
    BY <2>10, ReturnKeeps
  <2>11. CASE UNCHANGED vars
    BY <2>11, StutterKeeps
  <2>. QED
    BY <2>1, <2>2, <2>3, <2>4, <2>5, <2>6, <2>7, <2>8, <2>9, <2>10, <2>11 DEF Next
<1>. QED
  BY <1>1, <1>2, PTL DEF Spec

(* Every variable keeps its type. *)
THEOREM TypesHold == Spec => []TypeOK
PROOF
<1>1. IInv => TypeOK
  BY DEF IInv
<1>. QED
  BY <1>1, Invariance, PTL

(* filter_packet puts to the rules only the headers of the datagram, but   *)
(* for what Misread names, whatever the buffers and the fragments are, and *)
(* stops or reads past the chain only where JudgesItsHeaders says.         *)
THEOREM HeadersJudged == Spec => []JudgesItsHeaders
PROOF
<1>1. IInv => JudgesItsHeaders
  BY DEF IInv
<1>. QED
  BY <1>1, Invariance, PTL

(* No datagram arrives whole that filter_packet's tables deny. *)
THEOREM DeniedIncomplete == Spec => []DeniedStaysOut
PROOF
<1>1. IInv => DeniedStaysOut
  <2>. SUFFICES ASSUME IInv, Proper, through = 1..dgram.fragments PROVE Allowed
    BY DEF DeniedStaysOut
  <2>1. 1 \in 1..dgram.fragments
    BY LayoutAssumption DEF IInv, TypeOK, Datagrams
  <2>. QED
    BY <2>1 DEF IInv, FirstOK
<1>. QED
  BY <1>1, Invariance, PTL
=============================================================================
