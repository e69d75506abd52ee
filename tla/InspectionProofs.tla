-------------------------- MODULE InspectionProofs --------------------------
(***************************************************************************)
(* Proofs about Inspection: its inductive invariant holds for every set of *)
(* cores, every size of the id space and of the address space and every    *)
(* bound, hence no reference ever changes its meaning, none is lost before *)
(* its stop ends, and data is of the object that was asked for.            *)
(***************************************************************************)
EXTENDS Inspection, TLAPS

-----------------------------------------------------------------------------
(* Operators.                                                               *)

(* The entries of a level of values, as PageOf takes them.                  *)
Entries == [label : Nat, expandable : BOOLEAN]

(* pageBounds stays within the values, and the first entry of the page is   *)
(* the one the page starts at.                                              *)
LEMMA PageOfValues ==
    ASSUME NEW S, NEW values \in Seq(S), NEW page \in [start : Nat, count : Nat]
    PROVE  /\ PageOf(values, page) \in Seq(S)
           /\ \A i \in DOMAIN PageOf(values, page) :
                 /\ page.start + i \in DOMAIN values
                 /\ PageOf(values, page)[i] = values[page.start + i]
<1>1. CASE page.start >= Len(values)
      BY <1>1 DEF PageOf
<1>2. CASE page.start < Len(values)
  <2> DEFINE last == IF page.start + page.count > Len(values) THEN Len(values)
                     ELSE page.start + page.count
  <2>1. PageOf(values, page) = SubSeq(values, page.start + 1, last)
        BY <1>2, SMTT(30) DEF PageOf
  <2>2. last \in Nat /\ last <= Len(values) /\ last >= page.start /\ page.start \in Nat
        BY <1>2
  <2> QED BY <2>1, <2>2, SMTT(30)
<1> QED BY <1>1, <1>2

(* The frames of a page are numbered from its start and all get a handle.   *)
LEMMA PageOfFrames ==
    ASSUME NEW n \in Nat, NEW page \in [start : Nat, count : Nat]
    PROVE  /\ PageOf(FrameList(n), page) \in Seq(Entries)
           /\ \A i \in DOMAIN PageOf(FrameList(n), page) :
                 /\ PageOf(FrameList(n), page)[i].label = page.start + i - 1
                 /\ PageOf(FrameList(n), page)[i].expandable
<1>1. FrameList(n) \in Seq(Entries) /\ Len(FrameList(n)) = n
      BY DEF FrameList, Entries
<1>2. /\ PageOf(FrameList(n), page) \in Seq(Entries)
      /\ \A i \in DOMAIN PageOf(FrameList(n), page) :
            /\ page.start + i \in DOMAIN FrameList(n)
            /\ PageOf(FrameList(n), page)[i] = FrameList(n)[page.start + i]
      BY <1>1, PageOfValues
<1>3. ASSUME NEW i \in DOMAIN PageOf(FrameList(n), page)
      PROVE  /\ PageOf(FrameList(n), page)[i].label = page.start + i - 1
             /\ PageOf(FrameList(n), page)[i].expandable
  <2>0. DOMAIN FrameList(n) = 1..n
        BY DEF FrameList
  <2>1. page.start + i \in 1..n /\ PageOf(FrameList(n), page)[i] = FrameList(n)[page.start + i]
        BY <1>2, <2>0, Zenon
  <2>2. \A k \in 1..n : FrameList(n)[k] = [label |-> k - 1, expandable |-> TRUE]
        BY DEF FrameList
  <2>3. PageOf(FrameList(n), page)[i] = [label |-> (page.start + i) - 1, expandable |-> TRUE]
        BY <2>1, <2>2, Zenon
  <2>4. i \in Nat /\ page.start \in Nat
        BY <1>2
  <2>5. (page.start + i) - 1 = page.start + i - 1
        BY <2>4
  <2>6. PageOf(FrameList(n), page)[i].label = (page.start + i) - 1
        BY <2>3
  <2>7. PageOf(FrameList(n), page)[i].expandable
        BY <2>3
  <2> QED BY <2>5, <2>6, <2>7, Zenon
<1> QED BY <1>2, <1>3

(* checkedAddressOffset never wraps: an address it returns is the sum.      *)
LEMMA OffsetIsExact ==
    ASSUME NEW address \in 0..(Word - 1), NEW offset \in Offsets,
           CheckedAddressOffset(address, offset) # -1
    PROVE  CheckedAddressOffset(address, offset) = address + offset
<1>a. Word \in Nat \ {0}
      BY BoundsAssumption
<1>b. offset \in (-Word)..(Word - 1) /\ -Word <= 2 * offset /\ 2 * offset < Word
      BY InputsAssumption, Zenon
<1>1. offset \in Int /\ -Word <= 2 * offset /\ 2 * offset < Word /\ Word \in Nat \ {0}
      BY <1>a, <1>b, SMT
<1>2. CASE offset >= 0
      BY <1>1, <1>2 DEF CheckedAddressOffset
<1>3. CASE offset < 0
  <2>1. -(offset + 1) + 1 = -offset /\ -offset \in 0..(Word - 1)
        BY <1>1, <1>3
  <2>2. (-offset) % Word = -offset
        BY <1>1, <2>1
  <2> QED BY <1>1, <1>3, <2>1, <2>2 DEF CheckedAddressOffset
<1> QED BY <1>1, <1>2, <1>3

-----------------------------------------------------------------------------
(* Types.                                                                   *)

Pages == [start : Nat, count : Nat]

LEMMA ElementTyped ==
    ASSUME NEW S, NEW s \in Seq(S), NEW i \in DOMAIN s
    PROVE  i \in Nat \ {0} /\ s[i] \in S
OBVIOUS

(* A sequence that is not empty.                                            *)
LEMMA NotEmpty ==
    ASSUME NEW S, NEW s \in Seq(S), s # <<>>
    PROVE  /\ 1 \in DOMAIN s /\ Head(s) = s[1] /\ Head(s) \in S /\ Tail(s) \in Seq(S)
           /\ DOMAIN Tail(s) = 1..(Len(s) - 1) /\ Len(Tail(s)) = Len(s) - 1
           /\ \A i \in DOMAIN Tail(s) : i + 1 \in DOMAIN s /\ Tail(s)[i] = s[i + 1]
<1>1. Len(s) \in Nat /\ DOMAIN s = 1..Len(s) /\ Len(s) # 0
      OBVIOUS
<1> QED BY <1>1

(* What appending an element changes.                                       *)
LEMMA Appended ==
    ASSUME NEW S, NEW s \in Seq(S), NEW e \in S
    PROVE  /\ Append(s, e) \in Seq(S) /\ Len(Append(s, e)) = Len(s) + 1
           /\ DOMAIN s = 1..Len(s) /\ Len(s) \in Nat
           /\ DOMAIN Append(s, e) = 1..(Len(s) + 1)
           /\ Append(s, e)[Len(s) + 1] = e
           /\ \A i \in DOMAIN s : Append(s, e)[i] = s[i]
OBVIOUS

LEMMA PointerTyped ==
    ASSUME NEW core \in Nat, NEW epoch \in Nat, NEW bound \in BOOLEAN, NEW address \in 0..(Word - 1)
    PROVE  Pointer(core, epoch, bound, address) \in Pointers
BY DEF Pointer, Pointers

(* What stands for nothing is of its type.                                  *)
LEMMA NothingTyped ==
    /\ NoRef \in Reference /\ NoPage \in Pages /\ NoPointer \in Pointers
    /\ NoRequest \in Requests /\ NoRequest.op = "none"
<1>1. NoRef \in Reference
      BY DEF NoRef, Ref, Reference, Kinds
<1>2. NoPage \in Pages
      BY DEF NoPage, Pages
<1>3. NoPointer \in Pointers
      BY BoundsAssumption DEF NoPointer, Pointer, Pointers
<1>4. NoRequest \in Requests /\ NoRequest.op = "none"
      BY <1>1, <1>2, <1>3 DEF NoRequest, Request, Requests, Ops, Pages
<1> QED BY <1>1, <1>2, <1>3, <1>4

(* The work items the loop makes itself.                                    *)
LEMMA LoopWorkTyped ==
    /\ Idle \in Work /\ Sample \in Work /\ Other \in Work
    /\ Idle.step = "idle" /\ Sample.step = "sample" /\ Other.step = "other"
    /\ ~Idle.wanted /\ ~Sample.wanted /\ ~Other.wanted
<1>1. 0 \in 0..(Word - 1) /\ <<>> \in Seq(Entries) /\ <<>> \in Seq([label : Nat, id : Nat])
      BY BoundsAssumption
<1>2. Idle \in Work
      BY <1>1, NothingTyped DEF Idle, Work, Steps, Entries
<1>3. Sample \in Work /\ Other \in Work
      BY <1>2, Zenon DEF Sample, Other, Work, Steps
<1> QED BY <1>2, <1>3 DEF Idle, Sample, Other

(* What a client may ask: a request is well formed and names only what the  *)
(* client was given, or an address it may compute.                          *)
Askable(req) ==
    /\ req \in Requests /\ req.op # "none"
    /\ req.op \in {"scopes", "variables", "evaluate"} => req.ref \in given
    /\ req.op = "memory" =>
          /\ req.offset \in Offsets
          /\ CheckedAddressOffset(req.pointer.address, req.offset) # -1

AskSomething ==
    \/ AskStack \/ AskInFrame \/ AskVariables \/ Ask(TopFrameRequest)
    \/ \E pointer \in pointers \union NumericPointers : AskMemory(pointer)

LEMMA MemoryIsAskable ==
    ASSUME NEW pointer \in Pointers, AskMemory(pointer)
    PROVE  \E req : Askable(req) /\ Ask(req)
<1>1. PICK offset \in Offsets :
          /\ CheckedAddressOffset(pointer.address, offset) # -1
          /\ Ask(Request("memory", 0, NoRef, NoPage, "", pointer, offset))
      BY Zenon DEF AskMemory
<1> DEFINE req == Request("memory", 0, NoRef, NoPage, "", pointer, offset)
<1>2. offset \in Int
  <2>1. offset \in (-Word)..(Word - 1)
        BY InputsAssumption, Zenon
  <2> QED BY <2>1
<1>3. req \in Requests /\ req.op = "memory" /\ req.pointer = pointer /\ req.offset = offset
      BY <1>2, NothingTyped, Zenon DEF Request, Requests, Ops, Pages
<1>4. Askable(req)
      BY <1>1, <1>3, Zenon DEF Askable
<1> QED BY <1>1, <1>4, Zenon

LEMMA AskedRequest ==
    ASSUME TypeOK, AskSomething
    PROVE  \E req : Askable(req) /\ Ask(req)
<1>0. /\ NoRef \in Reference /\ NoPage \in Pages /\ NoPointer \in Pointers
      /\ "" \in {"", "named", "indexed"} /\ 0 \in Nat /\ 0 \in Int
      /\ "stack" \in Ops /\ "scopes" \in Ops /\ "evaluate" \in Ops /\ "variables" \in Ops
      BY NothingTyped DEF Ops
<1>1. ASSUME NEW page \in AskedPages
      PROVE  page \in Pages
  <2>1. PICK p \in PageArguments : DapPageOK(p) /\ page = DapPage(p)
        BY Zenon DEF AskedPages
  <2>2. p \in Pages
        BY <2>1, InputsAssumption, Zenon DEF Pages
  <2>3. p.start \in Nat /\ p.count \in Nat /\ MaxInt - p.start \in Nat
        BY <2>1, <2>2, BoundsAssumption DEF DapPageOK, Pages
  <2> QED BY <2>1, <2>2, <2>3 DEF DapPage, Pages
<1>2. CASE AskStack
  <2>1. PICK req \in StackRequests : Ask(req)
        BY <1>2 DEF AskStack
  <2>2. Threads \subseteq Nat /\ AskedPages \subseteq Pages
        BY <1>1, CoresAssumption
  <2>3. req \in Requests /\ req.op = "stack"
        BY <1>0, <2>2, Zenon DEF StackRequests, Requests, Pages
  <2>4. Askable(req)
        BY <2>3, Zenon DEF Askable
  <2> QED BY <2>1, <2>4, Zenon
<1>3. CASE AskInFrame
  <2>1. PICK op \in {"scopes", "evaluate"}, ref \in given :
            Ask(Request(op, 0, ref, NoPage, "", NoPointer, 0))
        BY <1>3, Zenon DEF AskInFrame
  <2> DEFINE req == Request(op, 0, ref, NoPage, "", NoPointer, 0)
  <2>2. ref \in Reference
        BY DEF TypeOK
  <2>3. req \in Requests /\ req.op = op /\ req.ref = ref
        BY <1>0, <2>2, Zenon DEF Request, Requests, Pages
  <2>4. Askable(req)
        BY <2>3, Zenon DEF Askable
  <2> QED BY <2>1, <2>4, Zenon
<1>4. CASE AskVariables
  <2>1. PICK ref \in given, page \in AskedPages, filter \in Filters :
            Ask(Request("variables", 0, ref, page, filter, NoPointer, 0))
        BY <1>4, Zenon DEF AskVariables
  <2> DEFINE req == Request("variables", 0, ref, page, filter, NoPointer, 0)
  <2>2. ref \in Reference /\ page \in Pages /\ filter \in {"", "named", "indexed"}
        BY <1>1, InputsAssumption, Zenon DEF TypeOK
  <2>3. req \in Requests /\ req.op = "variables" /\ req.ref = ref
        BY <1>0, <2>2, Zenon DEF Request, Requests, Pages
  <2>4. Askable(req)
        BY <2>3 DEF Askable
  <2> QED BY <2>1, <2>4, Zenon
<1>5. CASE Ask(TopFrameRequest)
  <2>1. FirstCore \in Nat
        BY CoresAssumption
  <2>2. TopFrameRequest \in Requests /\ TopFrameRequest.op = "evaluateTop"
    <3>1. [start |-> 0, count |-> 1] \in Pages
          BY DEF Pages
    <3>2. "evaluateTop" \in Ops
          BY DEF Ops
    <3> QED BY <1>0, <2>1, <3>1, <3>2, Zenon DEF TopFrameRequest, Request, Requests, Pages
  <2>3. Askable(TopFrameRequest)
        BY <2>2 DEF Askable
  <2> QED BY <1>5, <2>3, Zenon
<1>6. CASE \E pointer \in pointers \union NumericPointers : AskMemory(pointer)
  <2>1. PICK pointer \in pointers \union NumericPointers : AskMemory(pointer)
        BY <1>6
  <2>2. CASE pointer \in pointers
    <3>1. pointer \in Pointers
          BY <2>2 DEF TypeOK
    <3> QED BY <2>1, <3>1, MemoryIsAskable, Zenon
  <2>3. CASE pointer \in NumericPointers
    <3>1. NumericCores \subseteq Nat /\ Addresses \subseteq 0..(Word - 1)
          BY CoresAssumption, InputsAssumption, Zenon DEF NumericCores
    <3>2. pointer \in Pointers
          BY <1>0, <2>3, <3>1 DEF NumericPointers, Pointers
    <3> QED BY <2>1, <3>2, MemoryIsAskable, Zenon
  <2> QED BY <2>1, <2>2, <2>3
<1> QED BY <1>2, <1>3, <1>4, <1>5, <1>6, Zenon DEF AskSomething

Answers ==
    [req : Requests, core : Nat, epoch : Nat,
     session : [state : {"stopped", "running"}, epoch : Nat], address : Int]

Calls == [at : {"none", "waiting", "resume"}, req : Requests]

Sessions == [state : {"stopped", "running"}, epoch : Nat]

LEMMA CallsTyped ==
    /\ NoAnswer \in Answers /\ NoCall \in Calls
    /\ \A req \in Requests : Waiting(req) \in Calls /\ Waiting(req) # NoCall
<1>1. 0 \in Nat /\ 0 \in Int /\ "running" \in {"stopped", "running"} /\ NoRequest \in Requests
      BY NothingTyped
<1>2. [state |-> "running", epoch |-> 0] \in [state : {"stopped", "running"}, epoch : Nat]
      BY <1>1, Zenon
<1>3. NoAnswer \in Answers
      BY <1>1, <1>2, Zenon DEF NoAnswer, Answers
<1>4. NoCall \in Calls
      BY <1>1, Zenon DEF NoCall, Calls
<1> QED BY <1>3, <1>4 DEF NoCall, Waiting, Calls

(* The work the loop queues for a request.                                  *)
LEMMA WorkOfTyped ==
    ASSUME NEW req \in Requests, snap \in Sessions
    PROVE  /\ WorkOf(req) \in Work
           /\ WorkOf(req).step = "run" /\ WorkOf(req).req = req /\ WorkOf(req).epoch = snap.epoch
           /\ WorkOf(req).wanted /\ WorkOf(req).result = <<>>
<1>1. Idle \in Work /\ "run" \in Steps /\ snap.epoch \in Nat /\ Idle.result = <<>>
      BY LoopWorkTyped DEF Sessions, Steps, Idle
<1> QED BY <1>1, Zenon DEF WorkOf, Work

(* A work whose caller has gone is still a work.                            *)
LEMMA UnwantedTyped ==
    ASSUME NEW w \in Work
    PROVE  /\ [w EXCEPT !.wanted = FALSE] \in Work
           /\ ~[w EXCEPT !.wanted = FALSE].wanted
           /\ \A f \in {"step", "req", "epoch", "stopped", "base", "todo", "result", "pc", "selected"} :
                 [w EXCEPT !.wanted = FALSE][f] = w[f]
BY Zenon DEF Work

(* What the worker has found, and what it has minted of it.                 *)
LEMMA MintingTyped ==
    ASSUME NEW w \in Work, NEW base \in Reference, NEW values \in Seq(Entries),
           NEW selected \in Nat, NEW pc \in 0..(Word - 1)
    PROVE  [w EXCEPT !.step = "mint", !.base = base, !.todo = values,
                     !.selected = selected, !.pc = pc] \in Work
<1>1. "mint" \in Steps
      BY DEF Steps
<1> QED BY <1>1, Zenon DEF Work, Entries

LEMMA FailingTyped ==
    ASSUME NEW w \in Work
    PROVE  [w EXCEPT !.step = "failed"] \in Work
<1>1. "failed" \in Steps
      BY DEF Steps
<1> QED BY <1>1, SMTT(30) DEF Work

(* A reference that an answer carries is well formed.                       *)
LEMMA MeaningTyped ==
    ASSUME snap \in Sessions, NEW w \in Work, NEW i \in DOMAIN w.result
    PROVE  /\ Meaning(w.req, i, w.result[i]) \in Reference
           /\ Meaning(w.req, i, w.result[i]).id = w.result[i].id
<1>1. /\ w.req \in Requests /\ w.result \in Seq([label : Nat, id : Nat]) /\ w.epoch \in Nat
      BY DEF Work
<1>2. /\ w.result[i].id \in Nat /\ w.result[i].label \in Nat /\ i \in Nat \ {0}
  <2>1. w.result[i] \in [label : Nat, id : Nat] /\ i \in Nat \ {0}
        BY <1>1, ElementTyped, Zenon
  <2> QED BY <2>1
<1>3. w.req.core \in Nat /\ w.req.page.start \in Nat
      BY <1>1, Zenon DEF Requests
<1>4. /\ w.req.ref.core \in Nat /\ w.req.ref.epoch \in Nat /\ w.req.ref.path \in Seq(Nat)
      /\ snap.epoch \in Nat
      BY <1>1, Zenon DEF Requests, Reference, Sessions
<1>5. /\ <<w.req.page.start + i - 1>> \in Seq(Nat) /\ <<w.result[i].label>> \in Seq(Nat)
      /\ Append(w.req.ref.path, w.result[i].label) \in Seq(Nat)
      BY <1>2, <1>3, <1>4, SMTT(30)
<1>6. ChildPath(w.req.ref, w.result[i].label) \in Seq(Nat)
      BY <1>5, Zenon DEF ChildPath
<1>7. /\ "frame" \in Kinds /\ "scope" \in Kinds
      /\ "variable" \in Kinds
      BY DEF Kinds
<1>8. CASE w.req.op \in {"stack", "evaluateTop"}
  <2>1. Meaning(w.req, i, w.result[i]) =
            Ref(w.result[i].id, "frame", w.req.core, snap.epoch, <<w.req.page.start + i - 1>>)
        BY <1>8 DEF Meaning
  <2>2. ASSUME NEW p \in Seq(Nat)
        PROVE  /\ Ref(w.result[i].id, "frame", w.req.core, snap.epoch, p) \in Reference
               /\ Ref(w.result[i].id, "frame", w.req.core, snap.epoch, p).id = w.result[i].id
        BY <1>2, <1>3, <1>4, <1>7, Zenon DEF Ref, Reference
  <2> QED BY <1>5, <1>6, <2>1, <2>2, Zenon
<1>9. CASE w.req.op = "scopes"
  <2>1. Meaning(w.req, i, w.result[i]) =
            Ref(w.result[i].id, "scope", w.req.ref.core, w.req.ref.epoch, <<w.result[i].label>>)
        BY <1>9 DEF Meaning
  <2>2. ASSUME NEW p \in Seq(Nat)
        PROVE  /\ Ref(w.result[i].id, "scope", w.req.ref.core, w.req.ref.epoch, p) \in Reference
               /\ Ref(w.result[i].id, "scope", w.req.ref.core, w.req.ref.epoch, p).id = w.result[i].id
        BY <1>2, <1>3, <1>4, <1>7, Zenon DEF Ref, Reference
  <2> QED BY <1>5, <1>6, <2>1, <2>2, Zenon
<1>10. CASE w.req.op = "evaluate"
  <2>1. Meaning(w.req, i, w.result[i]) =
            Ref(w.result[i].id, "variable", w.req.ref.core, w.req.ref.epoch, <<w.result[i].label>>)
        BY <1>10 DEF Meaning
  <2>2. ASSUME NEW p \in Seq(Nat)
        PROVE  /\ Ref(w.result[i].id, "variable", w.req.ref.core, w.req.ref.epoch, p) \in Reference
               /\ Ref(w.result[i].id, "variable", w.req.ref.core, w.req.ref.epoch, p).id = w.result[i].id
        BY <1>2, <1>3, <1>4, <1>7, Zenon DEF Ref, Reference
  <2> QED BY <1>5, <1>6, <2>1, <2>2, Zenon
<1>11. CASE w.req.op \notin {"stack", "evaluateTop", "scopes", "evaluate"}
  <2>1. Meaning(w.req, i, w.result[i]) =
            Ref(w.result[i].id, "variable", w.req.ref.core, w.req.ref.epoch,
                ChildPath(w.req.ref, w.result[i].label))
        BY <1>11 DEF Meaning
  <2>2. ASSUME NEW p \in Seq(Nat)
        PROVE  /\ Ref(w.result[i].id, "variable", w.req.ref.core, w.req.ref.epoch, p) \in Reference
               /\ Ref(w.result[i].id, "variable", w.req.ref.core, w.req.ref.epoch, p).id = w.result[i].id
        BY <1>2, <1>3, <1>4, <1>7, Zenon DEF Ref, Reference
  <2> QED BY <1>5, <1>6, <2>1, <2>2, Zenon
<1> QED BY <1>8, <1>9, <1>10, <1>11

(* So are the instruction pointers of an answer.                            *)
LEMMA FramePointersTyped ==
    ASSUME NEW w \in Work
    PROVE  FramePointers(w) \subseteq Pointers
<1>1. w.req.core \in Nat /\ w.epoch \in Nat /\ w.pc \in 0..(Word - 1)
      BY Zenon DEF Work, Requests
<1>2. Pointer(w.req.core, w.epoch, TRUE, w.pc) \in Pointers
      BY <1>1, PointerTyped, Zenon
<1> QED BY <1>2, Zenon DEF FramePointers

-----------------------------------------------------------------------------
(* Every step keeps the types.                                              *)

LEMMA QuietTyped == Quiet => answer' \in Answers /\ answer' = NoAnswer
BY CallsTyped DEF Quiet

(* The types under their names.                                             *)
Typed ==
    /\ mode \in {"open", "faulted", "closed"} /\ snap \in Sessions /\ next \in 0..MaxID
    /\ live \subseteq Reference /\ queue \in Seq(Work) /\ work \in Work
    /\ call \in Calls /\ given \subseteq Reference /\ pointers \subseteq Pointers
    /\ answer \in Answers

LEMMA TypesNamed == (TypeOK <=> Typed) /\ (TypeOK' <=> Typed')
BY Zenon DEF TypeOK, Typed, Sessions, Calls, Answers

LEMMA AskTyped ==
    ASSUME Typed, NEW req \in Requests, Ask(req)
    PROVE  Typed'
<1>1. WorkOf(req) \in Work /\ Waiting(req) \in Calls
      BY WorkOfTyped, CallsTyped, Zenon DEF Typed
<1>2. queue' \in Seq(Work)
      BY <1>1 DEF Typed, Ask
<1>3. answer' \in Answers
      BY QuietTyped, Zenon DEF Ask
<1> QED BY <1>1, <1>2, <1>3, Zenon DEF Typed, Ask

LEMMA ResumeTyped ==
    ASSUME Typed, Resume
    PROVE  Typed'
<1>0. call.req \in Requests
      BY DEF Typed, Calls
<1>1. WorkOf(call.req) \in Work /\ Waiting(call.req) \in Calls /\ NoCall \in Calls
      BY <1>0, WorkOfTyped, CallsTyped, Zenon DEF Typed
<1>2. queue' \in Seq(Work) /\ call' \in Calls
      BY <1>1 DEF Typed, Resume
<1>3. answer' \in Answers
      BY QuietTyped, Zenon DEF Resume
<1> QED BY <1>1, <1>2, <1>3, Zenon DEF Typed, Resume

LEMMA GiveUpTyped ==
    ASSUME Typed, GiveUp
    PROVE  Typed'
<1>1. work' \in Work
      BY UnwantedTyped, Zenon DEF Typed, GiveUp
<1>2. queue' \in Seq(Work)
  <2>1. \A i \in DOMAIN queue : [queue[i] EXCEPT !.wanted = FALSE] \in Work
    <3>1. \A i \in DOMAIN queue : queue[i] \in Work
          BY ElementTyped, Zenon DEF Typed
    <3> QED BY <3>1, UnwantedTyped, Zenon
  <2>2. DOMAIN queue = 1..Len(queue) /\ Len(queue) \in Nat
        BY DEF Typed
  <2>3. \A n \in Nat : \A f : f \in [1..n -> Work] => f \in Seq(Work)
        OBVIOUS
  <2> DEFINE f == [i \in DOMAIN queue |-> [queue[i] EXCEPT !.wanted = FALSE]]
  <2>4. f \in [DOMAIN queue -> Work]
        BY <2>1, Zenon
  <2> QED BY <2>2, <2>3, <2>4, Zenon DEF GiveUp
<1>3. answer' \in Answers /\ call' \in Calls
      BY QuietTyped, CallsTyped, Zenon DEF GiveUp
<1> QED BY <1>1, <1>2, <1>3, Zenon DEF Typed, GiveUp

LEMMA StartNextTyped ==
    ASSUME Typed, StartNext
    PROVE  Typed'
<1>1. Head(queue) \in Work /\ queue' \in Seq(Work)
      BY DEF Typed, StartNext
<1>2. CASE CanStart(Head(queue)) /\ work' = Head(queue) /\ Quiet /\ UNCHANGED <<live, clientVars>>
      BY <1>1, <1>2, QuietTyped, Zenon DEF Typed, StartNext, clientVars
<1>3. CASE live' = LiveAfter(Head(queue)) /\ ReplyError(Head(queue)) /\ UNCHANGED work
  <2>1. live' \subseteq Reference
        BY <1>3, Zenon DEF Typed, LiveAfter
  <2>2. call' \in Calls /\ answer' \in Answers /\ UNCHANGED <<given, pointers>>
        BY <1>3, QuietTyped, CallsTyped, Zenon DEF Typed, ReplyError
  <2> QED BY <1>1, <1>3, <2>1, <2>2, Zenon DEF Typed, StartNext
<1> QED BY <1>2, <1>3, Zenon DEF StartNext

LEMMA TickTyped ==
    ASSUME Typed, NEW w \in Work, Tick(w)
    PROVE  Typed'
<1>1. queue' \in Seq(Work)
      BY DEF Typed, Tick
<1>2. answer' \in Answers
      BY QuietTyped, Zenon DEF Tick
<1> QED BY <1>1, <1>2, Zenon DEF Typed, Tick, clientVars

LEMMA ObserveTyped ==
    ASSUME Typed, Observe
    PROVE  Typed'
<1>1. snap' \in Sessions
      BY BoundsAssumption DEF Typed, Observe, Observations, Sessions
<1>2. live' \subseteq Reference /\ work' \in Work /\ answer' \in Answers
      BY QuietTyped, LoopWorkTyped, Zenon DEF Typed, Observe
<1> QED BY <1>1, <1>2, Zenon DEF Typed, Observe, clientVars

LEMMA CompleteOtherTyped ==
    ASSUME Typed, CompleteOther
    PROVE  Typed'
BY QuietTyped, LoopWorkTyped, Zenon DEF Typed, CompleteOther, clientVars

(* The references an answer adds are well formed.                           *)
LEMMA ReferencesTyped ==
    ASSUME snap \in Sessions, NEW w \in Work
    PROVE  References(w.req, w.result) \subseteq Reference
<1>1. SUFFICES ASSUME NEW r \in References(w.req, w.result)
               PROVE  r \in Reference
      OBVIOUS
<1>2. PICK i \in {j \in Shown(w.req, w.result) : w.result[j].id # 0} : r = Meaning(w.req, i, w.result[i])
      BY Zenon DEF References
<1>3. i \in DOMAIN w.result
      BY Zenon DEF Shown
<1>4. Meaning(w.req, i, w.result[i]) \in Reference
      BY <1>3, MeaningTyped, Zenon
<1> QED BY <1>2, <1>4, Zenon

LEMMA ReplyResultTyped ==
    ASSUME Typed, NEW w \in Work, ReplyResult(w)
    PROVE  /\ call' \in Calls /\ given' \subseteq Reference /\ pointers' \subseteq Pointers
           /\ answer' \in Answers
<1>0. w.req \in Requests /\ w.epoch \in Nat /\ w.base \in Reference
      BY DEF Work
<1>1. CASE Quiet /\ UNCHANGED clientVars
      BY <1>1, QuietTyped, Zenon DEF Typed, clientVars
<1>2. CASE /\ w.result # <<>> /\ Quiet /\ UNCHANGED pointers
           /\ call' = [at |-> "resume",
                       req |-> Request("evaluate", 0, TopFrame(w), NoPage, "", NoPointer, 0)]
           /\ given' = given \union {TopFrame(w)}
  <2>0. w.result \in Seq([label : Nat, id : Nat])
        BY DEF Work
  <2>1. 1 \in DOMAIN w.result
        BY <1>2, <2>0, NotEmpty, Zenon
  <2>2. TopFrame(w) \in Reference
        BY <2>1, MeaningTyped, Zenon DEF TopFrame, Typed
  <2>3. 0 \in Nat /\ 0 \in Int /\ "evaluate" \in Ops /\ "" \in {"", "named", "indexed"}
        BY DEF Ops
  <2>4. Request("evaluate", 0, TopFrame(w), NoPage, "", NoPointer, 0) \in Requests
        BY <2>2, <2>3, NothingTyped, Zenon DEF Request, Requests, Pages
  <2>5. "resume" \in {"none", "waiting", "resume"}
        OBVIOUS
  <2>6. call' \in Calls
        BY <1>2, <2>4, <2>5, Zenon DEF Calls
  <2> QED BY <1>2, <2>2, <2>6, QuietTyped, Zenon DEF Typed
<1>3. CASE /\ call' = NoCall
           /\ given' = given \union References(w.req, w.result)
           /\ pointers' = pointers \union FramePointers(w)
           /\ answer' = [req |-> w.req, core |-> w.base.core, epoch |-> w.epoch, session |-> snap,
                         address |-> IF w.req.op = "memory"
                                     THEN CheckedAddressOffset(w.req.pointer.address, w.req.offset)
                                     ELSE 0]
  <2>1. CheckedAddressOffset(w.req.pointer.address, w.req.offset) \in Int
    <3>1. w.req.pointer \in Pointers /\ w.req.offset \in Int
          BY <1>0, Zenon DEF Requests
    <3>2. w.req.pointer.address \in 0..(Word - 1) /\ Word \in Nat \ {0}
          BY <3>1, BoundsAssumption DEF Pointers
    <3> QED BY <3>1, <3>2 DEF CheckedAddressOffset
  <2> DEFINE address == IF w.req.op = "memory"
                        THEN CheckedAddressOffset(w.req.pointer.address, w.req.offset) ELSE 0
  <2>2. address \in Int
        BY <2>1
  <2>3. w.base.core \in Nat /\ snap \in [state : {"stopped", "running"}, epoch : Nat]
        BY <1>0 DEF Reference, Typed, Sessions
  <2>4. answer' \in Answers
    <3> HIDE DEF address
    <3>1. answer' = [req |-> w.req, core |-> w.base.core, epoch |-> w.epoch, session |-> snap,
                     address |-> address]
          BY <1>3, Zenon DEF address
    <3> QED BY <1>0, <2>2, <2>3, <3>1, Zenon DEF Answers
  <2> QED BY <1>3, <2>4, CallsTyped, ReferencesTyped, FramePointersTyped, Zenon DEF Typed
<1> QED BY <1>1, <1>2, <1>3, Zenon DEF ReplyResult

LEMMA CompleteTyped ==
    ASSUME Typed, Complete
    PROVE  Typed'
<1>1. live' \subseteq Reference /\ work' \in Work
      BY LoopWorkTyped, Zenon DEF Typed, LiveAfter, Complete
<1>2. CASE ReplyError(work)
      BY <1>1, <1>2, QuietTyped, CallsTyped, Zenon DEF Typed, ReplyError, Complete
<1>3. CASE ReplyResult(work)
  <2>1. /\ call' \in Calls /\ given' \subseteq Reference /\ pointers' \subseteq Pointers
        /\ answer' \in Answers
        BY <1>3, ReplyResultTyped, Zenon DEF Typed
  <2> QED BY <1>1, <2>1, Zenon DEF Typed, Complete
<1> QED BY <1>2, <1>3, Zenon DEF Complete

LEMMA EndTyped ==
    ASSUME Typed, FailClosed \/ Close
    PROVE  Typed'
<1>1. <<>> \in Seq(Work) /\ "faulted" \in {"open", "faulted", "closed"} /\ "closed" \in {"open", "faulted", "closed"}
      OBVIOUS
<1>2. call' \in Calls /\ answer' \in Answers
      BY CallsTyped, QuietTyped, Zenon DEF FailClosed, Close, ReleaseCaller, Typed
<1>3. CASE FailClosed
      BY <1>1, <1>2, <1>3, Zenon DEF Typed, FailClosed
<1>4. CASE Close
      BY <1>1, <1>2, <1>4, Zenon DEF Typed, Close
<1> QED BY <1>3, <1>4

(* What the worker reads is well formed.                                    *)
LEMMA MintsTyped ==
    ASSUME Typed, NEW base \in Reference, NEW values \in Seq(Entries),
           NEW selected \in Nat, NEW pc \in 0..(Word - 1), Mints(base, values, selected, pc)
    PROVE  Typed'
<1>1. work' \in Work
      BY MintingTyped, Zenon DEF Typed, Mints
<1> QED BY <1>1, QuietTyped, Zenon DEF Typed, Mints, clientVars

(* What a step of Run reads.  A stack is read of the core the request names *)
(* and a memory of the core of its pointer; the others follow a handle of   *)
(* the work's stop that has the id in the request.                          *)
RunReads(base, values) ==
    \/ /\ work.req.op \in {"stack", "evaluateTop"}
       /\ base = Ref(0, "none", work.req.core, work.epoch, <<>>)
       /\ \A i \in DOMAIN values :
             values[i].label = work.req.page.start + i - 1 /\ values[i].expandable
    \/ work.req.op \in {"scopes", "variables", "evaluate"} /\ base \in TheHandle
    \/ /\ work.req.op = "memory" /\ values = <<>>
       /\ base = Ref(0, "none", work.req.pointer.core, work.epoch, <<>>)

LEMMA RunMints ==
    ASSUME Typed, Run
    PROVE  \/ Fails
           \/ \E base \in Reference, values \in Seq(Entries), selected \in Nat, pc \in 0..(Word - 1) :
                 Mints(base, values, selected, pc) /\ RunReads(base, values)
<1>1. /\ work.req \in Requests /\ work.epoch \in Nat /\ work.req.page \in Pages
      /\ work.req.core \in Nat /\ work.req.pointer.core \in Nat
      BY Zenon DEF Typed, Work, Requests, Pages, Pointers
<1>2. /\ 0 \in Nat /\ 0 \in 0..(Word - 1) /\ <<>> \in Seq(Entries) /\ <<>> \in Seq(Nat)
      /\ "none" \in Kinds
      BY BoundsAssumption DEF Kinds
<1>3. TheHandle \subseteq Reference
      BY Zenon DEF TheHandle, Resolve, Typed
<1>4. ASSUME NEW core \in Nat
      PROVE  Ref(0, "none", core, work.epoch, <<>>) \in Reference
      BY <1>1, <1>2, Zenon DEF Ref, Reference
<1>5. CASE RunStack
  <2>0. PICK n \in FrameCounts, pc \in Addresses :
            \E selected \in 0..(n - 1) :
                Mints(Ref(0, "none", work.req.core, work.epoch, <<>>),
                      PageOf(FrameList(n), work.req.page), selected, pc)
        BY <1>5, Zenon DEF RunStack
  <2>1. PICK selected \in 0..(n - 1) :
            Mints(Ref(0, "none", work.req.core, work.epoch, <<>>),
                  PageOf(FrameList(n), work.req.page), selected, pc)
        BY <2>0
  <2> DEFINE values == PageOf(FrameList(n), work.req.page)
             base == Ref(0, "none", work.req.core, work.epoch, <<>>)
  <2>2. n \in Nat /\ pc \in 0..(Word - 1)
        BY InputsAssumption, Zenon
  <2>3. selected \in Nat
        BY <2>2
  <2>4. /\ values \in Seq(Entries)
        /\ \A i \in DOMAIN values :
              values[i].label = work.req.page.start + i - 1 /\ values[i].expandable
        BY <1>1, <2>2, PageOfFrames, Zenon DEF Pages
  <2>5. RunReads(base, values)
        BY <1>5, <2>4, Zenon DEF RunReads, RunStack
  <2> QED BY <1>1, <1>4, <2>1, <2>2, <2>3, <2>4, <2>5, Zenon
<1>6. CASE RunScopes
  <2> DEFINE values == <<[label |-> LocalsLabel, expandable |-> TRUE]>>
  <2>1. PICK h \in TheHandle : Mints(h, values, 0, 0)
        BY <1>6, Zenon DEF RunScopes
  <2>2. values \in Seq(Entries)
        BY DEF Entries, LocalsLabel
  <2>3. RunReads(h, values)
        BY <1>6, Zenon DEF RunReads, RunScopes
  <2> QED BY <1>2, <1>3, <2>1, <2>2, <2>3, Zenon
<1>7. CASE RunVariables
  <2>1. PICK h \in TheHandle, level \in Snapshots :
            Mints(h, IF work.req.filter # "" THEN level ELSE PageOf(level, work.req.page), 0, 0)
        BY <1>7, Zenon DEF RunVariables
  <2> DEFINE values == IF work.req.filter # "" THEN level ELSE PageOf(level, work.req.page)
  <2>2. level \in Seq(Entries)
        BY InputsAssumption, Zenon DEF Entries
  <2>3. values \in Seq(Entries)
        BY <1>1, <2>2, PageOfValues, Zenon DEF Pages
  <2>4. RunReads(h, values)
        BY <1>7, Zenon DEF RunReads, RunVariables
  <2> QED BY <1>2, <1>3, <2>1, <2>3, <2>4, Zenon
<1>8. CASE RunEvaluate
  <2>1. PICK h \in TheHandle, expandable \in BOOLEAN :
            Mints(h, <<[label |-> ExpressionLabel, expandable |-> expandable]>>, 0, 0)
        BY <1>8, Zenon DEF RunEvaluate
  <2> DEFINE values == <<[label |-> ExpressionLabel, expandable |-> expandable]>>
  <2>2. values \in Seq(Entries)
        BY DEF Entries, ExpressionLabel
  <2>3. RunReads(h, values)
        BY <1>8, Zenon DEF RunReads, RunEvaluate
  <2> QED BY <1>2, <1>3, <2>1, <2>2, <2>3, Zenon
<1>9. CASE RunMemory
  <2> DEFINE base == Ref(0, "none", work.req.pointer.core, work.epoch, <<>>)
  <2>1. Mints(base, <<>>, 0, 0) /\ RunReads(base, <<>>)
        BY <1>9, Zenon DEF RunMemory, RunReads
  <2> QED BY <1>1, <1>2, <1>4, <2>1, Zenon
<1>10. CASE RunRefused
      BY <1>10 DEF RunRefused
<1> QED BY <1>5, <1>6, <1>7, <1>8, <1>9, <1>10, Zenon DEF Run

LEMMA FailsTyped ==
    ASSUME Typed, Fails
    PROVE  Typed'
BY FailingTyped, QuietTyped, Zenon DEF Typed, Fails, clientVars

(* The entry Mint adds to the result, and the handle it allocates for it.   *)
Entry == Head(work.todo)

EntryId == IF Entry.expandable THEN next ELSE 0

Minted == Ref(EntryId, MintedKind(work.req), work.base.core, work.epoch,
              MintedPath(work, Entry.label))

LEMMA EntryTyped ==
    ASSUME Typed, Mint
    PROVE  /\ Entry \in Entries /\ EntryId \in Nat /\ Minted \in Reference /\ Minted.id = EntryId
           /\ work.todo \in Seq(Entries) /\ work.result \in Seq([label : Nat, id : Nat])
           /\ [label |-> Entry.label, id |-> EntryId] \in [label : Nat, id : Nat]
           /\ Minted.epoch = work.epoch
<1>0. /\ work.todo \in Seq(Entries) /\ work.result \in Seq([label : Nat, id : Nat])
      /\ work.epoch \in Nat /\ work.base \in Reference /\ work.req \in Requests
      BY DEF Typed, Work, Entries
<1>1. work.todo # <<>>
      BY Zenon DEF Mint
<1>2. Entry \in Entries
      BY <1>0, <1>1, NotEmpty, Zenon DEF Entry
<1>3. next \in Nat
      BY BoundsAssumption DEF Typed
<1>4. Entry.label \in Nat /\ EntryId \in Nat
      BY <1>2, <1>3 DEF Entries, EntryId
<1>5. MintedKind(work.req) \in Kinds
      BY DEF MintedKind, Kinds
<1>6. work.base.core \in Nat /\ work.base.path \in Seq(Nat)
      BY <1>0 DEF Reference
<1>7. MintedPath(work, Entry.label) \in Seq(Nat)
  <2>1. <<Entry.label>> \in Seq(Nat) /\ Append(work.base.path, Entry.label) \in Seq(Nat)
        BY <1>4, <1>6
  <2> QED BY <2>1, Zenon DEF MintedPath, ChildPath
<1>8. Minted \in Reference /\ Minted.id = EntryId /\ Minted.epoch = work.epoch
      BY <1>0, <1>4, <1>5, <1>6, <1>7, Zenon DEF Minted, Ref, Reference
<1>9. [label |-> Entry.label, id |-> EntryId] \in [label : Nat, id : Nat]
      BY <1>4, Zenon
<1> QED BY <1>0, <1>2, <1>4, <1>8, <1>9, Zenon

(* The effect of Mint under these names.                                    *)
LEMMA MintStep ==
    ASSUME Mint
    PROVE  /\ work.step = "mint" /\ work.todo # <<>> /\ (Entry.expandable => next # 0)
           /\ next' = IF Entry.expandable THEN NextID(next) ELSE next
           /\ live' = IF Entry.expandable THEN live \union {Minted} ELSE live
           /\ work' = [work EXCEPT !.todo = Tail(work.todo),
                                   !.result = Append(work.result, [label |-> Entry.label, id |-> EntryId])]
           /\ answer' = NoAnswer
           /\ UNCHANGED <<mode, snap, queue, call, given, pointers>>
BY Zenon DEF Mint, Entry, EntryId, Minted, Quiet, clientVars

LEMMA MintTyped ==
    ASSUME Typed, Mint
    PROVE  Typed'
<1>1. next' \in 0..MaxID
      BY MintStep, BoundsAssumption DEF Typed, NextID
<1>2. live' \subseteq Reference
      BY MintStep, EntryTyped, Zenon DEF Typed
<1>3. work' \in Work
  <2>1. Tail(work.todo) \in Seq([label : Nat, expandable : BOOLEAN])
        BY EntryTyped, MintStep, NotEmpty, Zenon DEF Entries
  <2>2. Append(work.result, [label |-> Entry.label, id |-> EntryId]) \in Seq([label : Nat, id : Nat])
        BY EntryTyped, Appended, Zenon
  <2>3. \A todo, result :
           /\ todo \in Seq([label : Nat, expandable : BOOLEAN])
           /\ result \in Seq([label : Nat, id : Nat])
           => [work EXCEPT !.todo = todo, !.result = result] \in Work
        BY Zenon DEF Typed, Work
  <2> QED BY <2>1, <2>2, <2>3, MintStep, ZenonT(30)
<1> QED BY <1>1, <1>2, <1>3, MintStep, CallsTyped, Zenon DEF Typed

(* TypeOK is kept by every step.                                            *)
LEMMA Typing == TypeOK /\ [Next]_vars => TypeOK'
<1> SUFFICES ASSUME Typed, [Next]_vars
             PROVE  Typed'
    BY TypesNamed, Zenon
<1>1. CASE AskSomething
  <2>1. PICK req : Askable(req) /\ Ask(req)
        BY <1>1, AskedRequest, TypesNamed, Zenon
  <2>2. req \in Requests
        BY <2>1 DEF Askable
  <2> QED BY <2>1, <2>2, AskTyped
<1>2. CASE Resume \/ GiveUp
      BY <1>2, ResumeTyped, GiveUpTyped, Zenon
<1>3. CASE Tick(Sample) \/ Tick(Other)
      BY <1>3, TickTyped, LoopWorkTyped, Zenon
<1>4. CASE Loop
      BY <1>4, StartNextTyped, ObserveTyped, CompleteOtherTyped, CompleteTyped, Zenon DEF Loop
<1>5. CASE Run
      BY <1>5, RunMints, FailsTyped, MintsTyped, Zenon
<1>6. CASE Mint \/ MintFails
      BY <1>6, MintTyped, FailsTyped, Zenon DEF MintFails
<1>7. CASE FailClosed \/ Close
      BY <1>7, EndTyped
<1>8. CASE UNCHANGED vars
      BY <1>8, Zenon DEF Typed, vars, actorVars, clientVars
<1> QED BY <1>1, <1>2, <1>3, <1>4, <1>5, <1>6, <1>7, <1>8, Zenon DEF Next, AskSomething, Worker

-----------------------------------------------------------------------------
(* The inductive invariant, one lemma per step.                             *)

(* Its conjuncts beside the types.                                          *)
Consistent ==
    /\ IdsGrow /\ ReferencesKeepMeaning /\ StopsBound
    /\ QueueInOrder /\ WorkFits /\ CallFits /\ AnswersFitRequests

LEMMA QueueAppended ==
    ASSUME NEW S, NEW s \in Seq(S), NEW e \in S, NEW t, t = Append(s, e)
    PROVE  /\ \A i \in DOMAIN t : \/ i \in DOMAIN s /\ t[i] = s[i]
                                  \/ i \notin DOMAIN s /\ t[i] = e
           /\ \A i, j \in DOMAIN t : /\ i < j => i \in DOMAIN s
                                     /\ i # j => i \in DOMAIN s \/ j \in DOMAIN s
<1>1. /\ DOMAIN s = 1..Len(s) /\ Len(s) \in Nat /\ DOMAIN t = 1..(Len(s) + 1)
      /\ t[Len(s) + 1] = e /\ \A i \in DOMAIN s : t[i] = s[i]
      OBVIOUS
<1>2. \A i \in DOMAIN t : i \notin DOMAIN s => i = Len(s) + 1
      BY <1>1
<1>3. \A i, j \in DOMAIN t : i < j => i \in DOMAIN s
      BY <1>1
<1>4. \A i, j \in DOMAIN t : i # j => i \in DOMAIN s \/ j \in DOMAIN s
      BY <1>1
<1> QED BY <1>1, <1>2, <1>3, <1>4, Zenon

LEMMA QueueGrows ==
    ASSUME NEW new, new \in Work, queue \in Seq(Work), queue' = Append(queue, new)
    PROVE  /\ \A i \in DOMAIN queue' : \/ i \in DOMAIN queue /\ queue'[i] = queue[i]
                                       \/ i \notin DOMAIN queue /\ queue'[i] = new
           /\ \A i, j \in DOMAIN queue' : /\ i < j => i \in DOMAIN queue
                                          /\ i # j => i \in DOMAIN queue \/ j \in DOMAIN queue
BY QueueAppended

(* What a step that leaves the session and the references given out alone   *)
(* does not change.                                                         *)
LEMMA SameSession ==
    ASSUME UNCHANGED <<snap, given>>
    PROVE  /\ \A e : SameStoppedEpoch(e)' <=> SameStoppedEpoch(e)
           /\ \A w : RequestFits(w)' <=> RequestFits(w)
           /\ \A w : Stale(w)' <=> Stale(w)
           /\ \A w : Current(w)' <=> Current(w)
BY Zenon DEF SameStoppedEpoch, RequestFits, Stale, Current, IsInspection

(* A handler that is not waiting has no work in the queue or in flight.     *)
LEMMA NotWaiting ==
    ASSUME QueueInOrder, WorkFits, mode = "open", call.at # "waiting"
    PROVE  ~work.wanted /\ \A i \in DOMAIN queue : ~queue[i].wanted
<1>1. \A req : Waiting(req).at = "waiting"
      BY DEF Waiting
<1>2. ~work.wanted
      BY <1>1, Zenon DEF WorkFits
<1>3. \A i \in DOMAIN queue : ~queue[i].wanted
      BY <1>1, Zenon DEF QueueInOrder, Queued
<1> QED BY <1>2, <1>3

(* QueueInOrder of the next state, element by element.                      *)
LEMMA QueueIntro ==
    ASSUME \A i \in DOMAIN queue' : \A w : w = queue'[i] => Queued(w)',
           \A i, j \in DOMAIN queue' : \A v, w : v = queue'[i] /\ w = queue'[j] =>
              /\ i < j /\ Current(v)' => ~Stale(w)'
              /\ i # j => ~(v.wanted /\ w.wanted)
    PROVE  QueueInOrder'
BY ZenonT(30) DEF QueueInOrder, Queued, Current, Stale, IsInspection, SameStoppedEpoch, RequestFits

(* A request enters the queue.                                              *)
LEMMA EnqueueKeeps ==
    ASSUME Typed, Consistent, NEW req, Askable(req), Accepts(req), call.at # "waiting",
           queue' = Append(queue, WorkOf(req)), call' = Waiting(req), Quiet,
           UNCHANGED <<mode, snap, next, live, work, given, pointers>>
    PROVE  Consistent'
<1> DEFINE new == WorkOf(req)
<1>0. mode = "open" /\ req \in Requests
      BY DEF Accepts, Askable
<1>1. /\ new \in Work /\ new.step = "run" /\ new.req = req /\ new.epoch = snap.epoch
      /\ new.wanted /\ new.result = <<>>
      BY <1>0, WorkOfTyped, Zenon DEF Typed
<1>2. ~work.wanted /\ \A i \in DOMAIN queue : ~queue[i].wanted
      BY <1>0, NotWaiting, Zenon DEF Consistent
<1>3. /\ \A i \in DOMAIN queue' : \/ i \in DOMAIN queue /\ queue'[i] = queue[i]
                                  \/ i \notin DOMAIN queue /\ queue'[i] = new
      /\ \A i, j \in DOMAIN queue' : /\ i < j => i \in DOMAIN queue
                                     /\ i # j => i \in DOMAIN queue \/ j \in DOMAIN queue
  <2>1. queue \in Seq(Work) /\ new \in Work /\ queue' = Append(queue, new)
        BY <1>1, Zenon DEF Typed
  <2> HIDE DEF new
  <2> QED BY <2>1, QueueAppended, Zenon
<1> HIDE DEF new
<1>4. IdsGrow' /\ ReferencesKeepMeaning' /\ StopsBound'
      BY SameSession, Zenon DEF Consistent, IdsGrow, ReferencesKeepMeaning, StopsBound, SameStoppedEpoch
<1>5. CallFits' /\ AnswersFitRequests'
  <2>1. call'.at = "waiting" /\ answer' = NoAnswer
        BY Zenon DEF Waiting, Quiet
  <2> QED BY <2>1 DEF CallFits, AnswersFitRequests
<1>6. WorkFits'
  <2>1. \A w : MintFits(w)' <=> MintFits(w)
        BY Zenon DEF MintFits
  <2> QED BY <1>0, <1>2, <2>1, SameSession, Zenon DEF Consistent, WorkFits, IsInspection, SameStoppedEpoch, RequestFits, MintFits
<1>7. QueueInOrder'
  <2>1. RequestFits(new)
    <3>1. snap.epoch <= snap.epoch
          BY DEF Typed, Sessions
    <3> QED BY <1>1, <3>1, Zenon DEF RequestFits, Askable, Accepts
  <2>2. Stale(new) => live = {} /\ ~IsInspection(work)
    <3>1. Stale(new) => snap.state # "stopped"
          BY <1>1, Zenon DEF Stale, SameStoppedEpoch
    <3> QED BY <1>0, <3>1, Zenon DEF Consistent, StopsBound, WorkFits, SameStoppedEpoch
  <2>3. ASSUME NEW w, w = new
        PROVE  Queued(w)'
    <3>1. RequestFits(w)' /\ (Stale(w)' => Stale(w)) /\ call' = Waiting(w.req)
          BY <1>1, <2>1, <2>3, SameSession, Zenon
    <3> QED BY <1>1, <1>2, <2>2, <2>3, <3>1, Zenon DEF Queued, IsInspection
  <2>4. ASSUME NEW i \in DOMAIN queue, NEW w, w = queue[i]
        PROVE  Queued(w)'
    <3>1. Queued(w) /\ ~w.wanted
          BY <1>0, <1>2, <2>4, Zenon DEF Consistent, QueueInOrder
    <3> QED BY <3>1, SameSession, Zenon DEF Queued, IsInspection
  <2>5. ASSUME NEW i \in DOMAIN queue, Current(queue[i])
        PROVE  ~Stale(new)
        BY <1>1, <2>5, Zenon DEF Current, Stale, SameStoppedEpoch
  <2>6. ASSUME NEW i \in DOMAIN queue', NEW w, w = queue'[i]
        PROVE  Queued(w)'
        BY <1>3, <2>3, <2>4, <2>6, Zenon
  <2>7. ASSUME NEW i \in DOMAIN queue', NEW j \in DOMAIN queue', NEW v, NEW w,
               v = queue'[i], w = queue'[j]
        PROVE  /\ i < j /\ Current(v)' => ~Stale(w)'
               /\ i # j => ~(v.wanted /\ w.wanted)
    <3>1. i < j /\ Current(v) => ~Stale(w)
          BY <1>0, <1>3, <2>5, <2>7, Zenon DEF Consistent, QueueInOrder
    <3>2. i # j => ~(v.wanted /\ w.wanted)
          BY <1>2, <1>3, <2>7, Zenon
    <3> QED BY <3>1, <3>2, SameSession, Zenon
  <2> QED BY <2>6, <2>7, QueueIntro
<1> QED BY <1>4, <1>5, <1>6, <1>7, Zenon DEF Consistent

(* The same work, for a caller that does not wait for it.                   *)
Unwanted(v, w) ==
    /\ ~w.wanted /\ w.step = v.step /\ w.req = v.req /\ w.epoch = v.epoch
    /\ w.base = v.base /\ w.todo = v.todo /\ w.result = v.result

(* The handler leaves: nothing waits for a reply any more.                  *)
LEMMA ReleaseKeeps ==
    ASSUME Consistent, call' = NoCall, Quiet, UNCHANGED <<mode, snap, next, live, given>>,
           mode = "open" => /\ DOMAIN queue' = DOMAIN queue
                            /\ \A i \in DOMAIN queue : Unwanted(queue[i], queue'[i])
                            /\ Unwanted(work, work') /\ (work = Idle => work' = Idle)
    PROVE  Consistent'
<1>1. IdsGrow' /\ ReferencesKeepMeaning' /\ StopsBound'
      BY SameSession, Zenon DEF Consistent, IdsGrow, ReferencesKeepMeaning, StopsBound, SameStoppedEpoch
<1>2. CallFits' /\ AnswersFitRequests'
  <2>1. call'.at = "none" /\ answer' = NoAnswer
        BY Zenon DEF NoCall, Quiet
  <2> QED BY <2>1 DEF CallFits, AnswersFitRequests
<1>3. CASE mode # "open"
      BY <1>1, <1>2, <1>3, Zenon DEF Consistent, WorkFits, QueueInOrder
<1>4. CASE mode = "open"
  <2>1. ASSUME NEW w, w = work'
        PROVE  /\ w.step = "idle" => w = Idle
               /\ ~w.wanted
               /\ IsInspection(w) => SameStoppedEpoch(w.epoch) /\ RequestFits(w)
               /\ w.step = "run" => w.result = <<>>
               /\ w.step = "mint" => MintFits(w)
    <3>1. Unwanted(work, w) /\ (work = Idle => w = Idle)
          BY <1>4, <2>1, Zenon
    <3>2. /\ w.step = "idle" => w = Idle
          /\ IsInspection(w) => SameStoppedEpoch(w.epoch) /\ RequestFits(w)
          /\ w.step = "run" => w.result = <<>>
          BY <1>4, <3>1, Zenon DEF Consistent, WorkFits, Unwanted, IsInspection, RequestFits
    <3>3. w.step = "mint" => MintFits(w)
      <4>1. MintFits(work) => MintFits(w)
            BY <3>1, ZenonT(30) DEF Unwanted, MintFits, FramesInOrder, MintedRef, MintedPath
      <4> QED BY <1>4, <3>1, <4>1, Zenon DEF Consistent, WorkFits, Unwanted
    <3> QED BY <3>1, <3>2, <3>3, Zenon DEF Unwanted
  <2>2. WorkFits'
    <3>1. ~work'.wanted /\ (IsInspection(work') => SameStoppedEpoch(work'.epoch) /\ RequestFits(work'))
          BY <2>1, Zenon
    <3>2. /\ work'.step = "idle" => work' = Idle
          /\ work'.step = "run" => work'.result = <<>>
          /\ work'.step = "mint" => MintFits(work')
          BY <2>1, Zenon
    <3> QED BY <3>1, <3>2, Zenon DEF WorkFits, IsInspection, SameStoppedEpoch, RequestFits, MintFits
  <2>3. ASSUME NEW i \in DOMAIN queue, NEW w, w = queue'[i]
        PROVE  Queued(w)' /\ ~w.wanted /\ (Current(w)' => Current(queue[i])) /\ (Stale(w)' => Stale(queue[i]))
    <3>1. Queued(queue[i]) /\ Unwanted(queue[i], w)
          BY <1>4, <2>3, Zenon DEF Consistent, QueueInOrder
    <3>2. ~IsInspection(work) => ~IsInspection(work')
          BY <1>4, Zenon DEF Unwanted, IsInspection
    <3>3. (Current(w) => Current(queue[i])) /\ (Stale(w) => Stale(queue[i]))
          BY <3>1, Zenon DEF Unwanted, Current, Stale, IsInspection
    <3>4. RequestFits(queue[i]) => RequestFits(w)
          BY <3>1, Zenon DEF Unwanted, RequestFits
    <3>5. Queued(w)'
          BY <3>1, <3>2, <3>3, <3>4, SameSession, Zenon DEF Queued, Unwanted, IsInspection
    <3> QED BY <3>1, <3>3, <3>5, SameSession, Zenon DEF Unwanted
  <2>4. ASSUME NEW i \in DOMAIN queue', NEW j \in DOMAIN queue', NEW v, NEW w,
               v = queue'[i], w = queue'[j]
        PROVE  /\ i < j /\ Current(v)' => ~Stale(w)'
               /\ i # j => ~(v.wanted /\ w.wanted)
        BY <1>4, <2>3, <2>4, Zenon DEF Consistent, QueueInOrder
  <2>5. \A i \in DOMAIN queue' : \A w : w = queue'[i] => Queued(w)'
        BY <1>4, <2>3, Zenon
  <2>6. QueueInOrder'
        BY <2>4, <2>5, QueueIntro
  <2> QED BY <1>1, <1>2, <2>2, <2>6, Zenon DEF Consistent
<1> QED BY <1>3, <1>4

LEMMA ResumeKeeps ==
    ASSUME Typed, Consistent, Resume
    PROVE  Consistent'
<1>0. call.at = "resume" /\ call.req \in Requests
      BY Zenon DEF Resume, Typed, Calls
<1>1. CASE Accepts(call.req)
  <2>1. call.req.op = "evaluate" /\ call.req.ref \in given
        BY <1>0, <1>1, Zenon DEF Accepts, Consistent, CallFits
  <2>2. Askable(call.req)
        BY <1>0, <2>1 DEF Askable
  <2>3. PICK req : req = call.req
        OBVIOUS
  <2>4. call.at # "waiting"
        BY <1>0
  <2>5. /\ queue' = Append(queue, WorkOf(req)) /\ call' = Waiting(req) /\ Quiet
        /\ UNCHANGED <<mode, snap, next, live, work, given, pointers>>
        BY <1>1, <2>3, Zenon DEF Resume
  <2> QED BY <1>1, <2>2, <2>3, <2>4, <2>5, EnqueueKeeps, Zenon
<1>2. CASE ~Accepts(call.req)
  <2>1. call' = NoCall /\ Quiet /\ UNCHANGED <<mode, snap, next, live, given, queue, work>>
        BY <1>2, Zenon DEF Resume
  <2>2. ASSUME mode = "open"
        PROVE  ~work.wanted /\ \A i \in DOMAIN queue : ~queue[i].wanted
        BY <1>0, <2>2, NotWaiting DEF Consistent
  <2> QED BY <2>1, <2>2, ReleaseKeeps, Zenon DEF Unwanted
<1> QED BY <1>1, <1>2

LEMMA UnwantedWork ==
    ASSUME NEW w \in Work
    PROVE  Unwanted(w, [w EXCEPT !.wanted = FALSE])
BY DEF Unwanted, Work

LEMMA GiveUpKeeps ==
    ASSUME Typed, Consistent, GiveUp
    PROVE  Consistent'
<1>1. call' = NoCall /\ Quiet /\ UNCHANGED <<mode, snap, next, live, given>>
      BY Zenon DEF GiveUp
<1>2. Unwanted(work, work')
      BY UnwantedWork, Zenon DEF GiveUp, Typed
<1>3. work = Idle => work' = Idle
  <2>1. [Idle EXCEPT !.wanted = FALSE] = Idle
    <3>1. \A w \in Work : w.wanted = FALSE => [w EXCEPT !.wanted = FALSE] = w
          BY DEF Work
    <3>2. Idle.wanted = FALSE
          BY DEF Idle
    <3> QED BY <3>1, <3>2, LoopWorkTyped, Zenon
  <2> QED BY <2>1, Zenon DEF GiveUp
<1>4. DOMAIN queue' = DOMAIN queue /\ \A i \in DOMAIN queue : queue'[i] = [queue[i] EXCEPT !.wanted = FALSE]
      BY Zenon DEF GiveUp
<1>5. \A i \in DOMAIN queue : queue[i] \in Work
      BY ElementTyped, Zenon DEF Typed
<1>6. \A i \in DOMAIN queue : Unwanted(queue[i], queue'[i])
      BY <1>4, <1>5, UnwantedWork, Zenon
<1> QED BY <1>1, <1>2, <1>3, <1>4, <1>6, ReleaseKeeps, Zenon

LEMMA QueueAdvanced ==
    ASSUME NEW S, NEW s \in Seq(S), s # <<>>, NEW t, t = Tail(s)
    PROVE  /\ 1 \in DOMAIN s /\ Head(s) = s[1]
           /\ \A i \in DOMAIN t : i + 1 \in DOMAIN s /\ t[i] = s[i + 1] /\ 1 < i + 1 /\ 1 # i + 1
           /\ \A i, j \in DOMAIN t : (i < j => i + 1 < j + 1) /\ (i # j => i + 1 # j + 1)
<1>1. /\ 1 \in DOMAIN s /\ Head(s) = s[1] /\ DOMAIN t = 1..(Len(s) - 1) /\ Len(s) \in Nat
      /\ \A i \in DOMAIN t : i + 1 \in DOMAIN s /\ t[i] = s[i + 1]
      BY NotEmpty
<1>2. \A i \in DOMAIN t : 1 < i + 1 /\ 1 # i + 1
      BY <1>1
<1>3. \A i, j \in DOMAIN t : (i < j => i + 1 < j + 1) /\ (i # j => i + 1 # j + 1)
      BY <1>1
<1> QED BY <1>1, <1>2, <1>3, Zenon

(* The head of the queue goes to the worker, or its stop has passed and its *)
(* caller is told.                                                          *)
LEMMA StartNextKeeps ==
    ASSUME Typed, Consistent, StartNext
    PROVE  Consistent'
<1> DEFINE h == Head(queue)
<1>0. mode = "open" /\ mode' = "open" /\ work = Idle /\ queue # <<>> /\ queue' = Tail(queue)
      BY Zenon DEF StartNext
<1>1. /\ 1 \in DOMAIN queue /\ h = queue[1]
      /\ \A i \in DOMAIN queue' : /\ i + 1 \in DOMAIN queue /\ queue'[i] = queue[i + 1]
                                  /\ 1 < i + 1 /\ 1 # i + 1
      /\ \A i, j \in DOMAIN queue' : (i < j => i + 1 < j + 1) /\ (i # j => i + 1 # j + 1)
  <2>1. queue \in Seq(Work)
        BY DEF Typed
  <2> QED BY <1>0, <2>1, QueueAdvanced, ZenonT(30)
<1>2. UNCHANGED <<snap, given, next>>
      BY Zenon DEF StartNext, clientVars, ReplyError
<1>3. Queued(h) /\ \A i \in DOMAIN queue' : Queued(queue[i + 1])
      BY <1>0, <1>1, Zenon DEF Consistent, QueueInOrder
<1>4. \A i \in DOMAIN queue' : ~(h.wanted /\ queue[i + 1].wanted) /\ (Current(h) => ~Stale(queue[i + 1]))
      BY <1>0, <1>1, Zenon DEF Consistent, QueueInOrder
<1>5. ASSUME NEW i \in DOMAIN queue', NEW j \in DOMAIN queue', NEW v, NEW w,
             v = queue'[i], w = queue'[j]
      PROVE  /\ i < j /\ Current(v)' => ~Stale(w)'
             /\ i # j => ~(v.wanted /\ w.wanted)
  <2>1. v = queue[i + 1] /\ w = queue[j + 1] /\ i + 1 \in DOMAIN queue /\ j + 1 \in DOMAIN queue
        BY <1>1, <1>5, Zenon
  <2>2. i < j /\ Current(v) => ~Stale(w)
        BY <1>0, <1>1, <2>1, Zenon DEF Consistent, QueueInOrder
  <2>3. i # j => ~(v.wanted /\ w.wanted)
        BY <1>0, <1>1, <2>1, Zenon DEF Consistent, QueueInOrder
  <2> QED BY <1>2, <2>2, <2>3, SameSession, Zenon
<1> HIDE DEF h
<1>6. CASE CanStart(h) /\ work' = h /\ Quiet /\ UNCHANGED <<live, clientVars>>
  <2>1. UNCHANGED <<live, call, given>> /\ answer' = NoAnswer
        BY <1>6, Zenon DEF clientVars, Quiet
  <2>2. IdsGrow' /\ ReferencesKeepMeaning' /\ StopsBound' /\ CallFits' /\ AnswersFitRequests'
        BY <1>0, <1>2, <2>1, Zenon DEF Consistent, IdsGrow, ReferencesKeepMeaning, StopsBound,
              SameStoppedEpoch, CallFits, AnswersFitRequests
  <2>3. ASSUME NEW w, w = h
        PROVE  /\ w.step # "idle" /\ w.step # "mint" /\ (w.wanted => call = Waiting(w.req))
               /\ IsInspection(w) => SameStoppedEpoch(w.epoch) /\ RequestFits(w)
               /\ w.step = "run" => w.result = <<>>
        BY <1>3, <1>6, <2>3, Zenon DEF Queued, CanStart, IsInspection
  <2>4. WorkFits'
    <3>1. PICK w : w = h
          OBVIOUS
    <3>2. /\ w.step # "idle" /\ w.step # "mint" /\ (w.wanted => call' = Waiting(w.req))
          /\ IsInspection(w) => SameStoppedEpoch(w.epoch)' /\ RequestFits(w)'
          /\ w.step = "run" => w.result = <<>>
          BY <1>2, <2>1, <2>3, <3>1, SameSession, Zenon
    <3>3. work' = w
          BY <1>6, <3>1, Zenon
    <3> QED BY <3>2, <3>3, Zenon DEF WorkFits, IsInspection, SameStoppedEpoch, RequestFits
  <2>5. ASSUME NEW i \in DOMAIN queue', NEW w, w = queue'[i]
        PROVE  Queued(w)'
    <3>1. Queued(w) /\ ~(h.wanted /\ w.wanted) /\ (Current(h) => ~Stale(w))
          BY <1>1, <1>3, <1>4, <2>5, Zenon
    <3>2. Stale(w) => ~IsInspection(h)
          BY <1>6, <3>1, Zenon DEF CanStart, Current
    <3>3. IsInspection(work)' <=> IsInspection(h)
          BY <1>6, Zenon DEF IsInspection
    <3> QED BY <1>2, <1>6, <2>1, <3>1, <3>2, <3>3, SameSession, Zenon DEF Queued
  <2>6. QueueInOrder'
        BY <1>5, <2>5, QueueIntro
  <2> QED BY <2>2, <2>4, <2>6, Zenon DEF Consistent
<1>7. CASE ~CanStart(h) /\ live' = LiveAfter(h) /\ ReplyError(h) /\ UNCHANGED work
  <2>1. live = {} /\ live' = {}
        BY <1>3, <1>7, Zenon DEF CanStart, Queued, Stale, LiveAfter
  <2>2. UNCHANGED live /\ answer' = NoAnswer /\ call' = IF h.wanted THEN NoCall ELSE call
        BY <1>7, <2>1, Zenon DEF ReplyError, Quiet
  <2>3. IdsGrow' /\ ReferencesKeepMeaning' /\ StopsBound' /\ AnswersFitRequests'
        BY <1>0, <1>2, <2>2, Zenon DEF Consistent, IdsGrow, ReferencesKeepMeaning, StopsBound,
              SameStoppedEpoch, AnswersFitRequests
  <2>4. CallFits'
    <3>1. NoCall.at = "none"
          BY DEF NoCall
    <3> QED BY <1>0, <1>2, <2>2, <3>1, Zenon DEF Consistent, CallFits
  <2>5. WorkFits'
    <3>1. Idle.step = "idle" /\ ~Idle.wanted
          BY LoopWorkTyped
    <3> QED BY <1>0, <1>7, <3>1, Zenon DEF WorkFits, IsInspection
  <2>6. ASSUME NEW i \in DOMAIN queue', NEW w, w = queue'[i]
        PROVE  Queued(w)'
    <3>1. Queued(w) /\ ~(h.wanted /\ w.wanted)
          BY <1>1, <1>3, <1>4, <2>6, Zenon
    <3> QED BY <1>2, <1>7, <2>1, <2>2, <3>1, SameSession, Zenon DEF Queued, IsInspection
  <2>7. QueueInOrder'
        BY <1>5, <2>6, QueueIntro
  <2> QED BY <2>3, <2>4, <2>5, <2>7, Zenon DEF Consistent
<1> QED BY <1>6, <1>7, Zenon DEF StartNext, h

LEMMA TickKeeps ==
    ASSUME Typed, Consistent, NEW new \in Work, Tick(new),
           ~new.wanted, new.step \in {"sample", "other"}
    PROVE  Consistent'
<1>0. mode = "open" /\ queue' = Append(queue, new) /\ answer' = NoAnswer
      BY Zenon DEF Tick, Quiet
<1>1. UNCHANGED <<mode, snap, next, live, work, call, given, pointers>>
      BY Zenon DEF Tick, clientVars
<1>2. /\ \A i \in DOMAIN queue' : \/ i \in DOMAIN queue /\ queue'[i] = queue[i]
                                  \/ i \notin DOMAIN queue /\ queue'[i] = new
      /\ \A i, j \in DOMAIN queue' : /\ i < j => i \in DOMAIN queue
                                     /\ i # j => i \in DOMAIN queue \/ j \in DOMAIN queue
  <2>1. queue \in Seq(Work) /\ new \in Work /\ queue' = Append(queue, new)
        BY <1>0, Zenon DEF Typed
  <2> QED BY <2>1, QueueGrows, Zenon
<1>3. IdsGrow' /\ ReferencesKeepMeaning' /\ StopsBound' /\ CallFits' /\ AnswersFitRequests'
      BY <1>0, <1>1, Zenon DEF Consistent, IdsGrow, ReferencesKeepMeaning, StopsBound,
            SameStoppedEpoch, CallFits, AnswersFitRequests
<1>4. WorkFits'
      BY <1>1, Zenon DEF Consistent, WorkFits, IsInspection, SameStoppedEpoch, RequestFits, MintFits
<1>5. ~IsInspection(new)
      BY DEF IsInspection
<1>6. ASSUME NEW i \in DOMAIN queue', NEW w, w = queue'[i]
      PROVE  Queued(w)'
  <2>1. CASE w = new
        BY <1>5, <2>1 DEF Queued, Stale, IsInspection
  <2>2. CASE Queued(w)
        BY <1>1, <2>2, SameSession, Zenon DEF Queued, IsInspection
  <2> QED BY <1>0, <1>2, <1>6, <2>1, <2>2, Zenon DEF Consistent, QueueInOrder
<1>7. ASSUME NEW i \in DOMAIN queue', NEW j \in DOMAIN queue', NEW v, NEW w,
             v = queue'[i], w = queue'[j]
      PROVE  /\ i < j /\ Current(v)' => ~Stale(w)'
             /\ i # j => ~(v.wanted /\ w.wanted)
  <2>1. i < j /\ Current(v) => ~Stale(w)
        BY <1>0, <1>2, <1>5, <1>7, Zenon DEF Consistent, QueueInOrder, Stale
  <2>2. i # j => ~(v.wanted /\ w.wanted)
        BY <1>0, <1>2, <1>7, ZenonT(30) DEF Consistent, QueueInOrder
  <2> QED BY <1>1, <2>1, <2>2, SameSession, Zenon
<1>8. QueueInOrder'
      BY <1>6, <1>7, QueueIntro
<1> QED BY <1>3, <1>4, <1>8, Zenon DEF Consistent

(* The work in flight ends.  What its answer gives out, if anything, is in  *)
(* the store.                                                               *)
LEMMA FinishKeeps ==
    ASSUME Typed, Consistent, mode = "open", work' = Idle,
           UNCHANGED <<mode, snap, next, live, queue>>,
           given \subseteq given', given' \subseteq given \union live,
           \A i \in DOMAIN queue : queue[i].wanted => call' = call,
           CallFits', AnswersFitRequests'
    PROVE  Consistent'
<1>1. IdsGrow' /\ ReferencesKeepMeaning'
      BY Zenon DEF Consistent, IdsGrow, ReferencesKeepMeaning
<1>2. StopsBound'
  <2>1. \A h \in live : h.epoch = snap.epoch
        BY Zenon DEF Consistent, StopsBound, SameStoppedEpoch
  <2>2. snap.epoch <= snap.epoch
        BY DEF Typed, Sessions
  <2>3. \A g \in given' : g.epoch <= snap.epoch
        BY <2>1, <2>2, Zenon DEF Consistent, StopsBound
  <2> QED BY <2>3, Zenon DEF Consistent, StopsBound, SameStoppedEpoch
<1>3. WorkFits'
  <2>1. Idle.step = "idle" /\ ~Idle.wanted
        BY LoopWorkTyped
  <2> QED BY <2>1, Zenon DEF WorkFits, IsInspection
<1>4. ASSUME NEW i \in DOMAIN queue', NEW w, w = queue'[i]
      PROVE  Queued(w)'
  <2>1. Queued(w) /\ (w.wanted => call' = call)
        BY <1>4, Zenon DEF Consistent, QueueInOrder
  <2>2. RequestFits(w) => RequestFits(w)'
        BY Zenon DEF RequestFits
  <2>3. Stale(w)' => Stale(w)
        BY Zenon DEF Stale, SameStoppedEpoch, IsInspection
  <2>4. ~work'.wanted /\ ~IsInspection(work)'
        BY LoopWorkTyped, Zenon DEF IsInspection
  <2> QED BY <2>1, <2>2, <2>3, <2>4, Zenon DEF Queued
<1>5. ASSUME NEW i \in DOMAIN queue', NEW j \in DOMAIN queue', NEW v, NEW w,
             v = queue'[i], w = queue'[j]
      PROVE  /\ i < j /\ Current(v)' => ~Stale(w)'
             /\ i # j => ~(v.wanted /\ w.wanted)
  <2>1. (Current(v)' => Current(v)) /\ (Stale(w)' => Stale(w))
        BY Zenon DEF Current, Stale, SameStoppedEpoch, IsInspection
  <2> QED BY <1>5, <2>1, Zenon DEF Consistent, QueueInOrder
<1>6. QueueInOrder'
      BY <1>4, <1>5, QueueIntro
<1> QED BY <1>1, <1>2, <1>3, <1>6, Zenon DEF Consistent

LEMMA CompleteOtherKeeps ==
    ASSUME Typed, Consistent, mode = "open", work' = Idle, Quiet,
           UNCHANGED <<mode, snap, next, live, queue, call, given>>
    PROVE  Consistent'
<1>1. CallFits' /\ AnswersFitRequests'
      BY Zenon DEF Consistent, CallFits, AnswersFitRequests, Quiet
<1> QED BY <1>1, FinishKeeps, Zenon

(* The stop ends: nothing that was asked or minted in it is current again.  *)
LEMMA ObserveKeeps ==
    ASSUME Typed, Consistent, Observe
    PROVE  Consistent'
<1>0. mode = "open" /\ work' = Idle /\ Quiet /\ UNCHANGED <<mode, next, queue, call, given>>
      BY Zenon DEF Observe, clientVars
<1>1. CASE snap' = snap
  <2>1. live' = live
        BY <1>1, Zenon DEF Observe
  <2> QED BY <1>0, <1>1, <2>1, CompleteOtherKeeps, Zenon
<1>2. CASE snap' # snap
  <2>1. live' = {} /\ snap' \in Observations
        BY <1>2, Zenon DEF Observe
  <2>2. /\ snap.epoch \in Nat /\ snap'.epoch \in Nat /\ snap.epoch <= snap'.epoch
        /\ snap'.state = "stopped" => snap.epoch < snap'.epoch
        BY <1>2, <2>1, BoundsAssumption DEF Observations, Typed, Sessions
  <2>3. ASSUME NEW e \in Nat, e <= snap.epoch
        PROVE  e <= snap'.epoch /\ ~SameStoppedEpoch(e)'
        BY <2>2, <2>3 DEF SameStoppedEpoch
  <2>4. \A g \in given : g.epoch \in Nat /\ g.epoch <= snap.epoch
        BY DEF Consistent, StopsBound, Typed, Reference
  <2>5. IdsGrow' /\ ReferencesKeepMeaning' /\ CallFits' /\ AnswersFitRequests'
        BY <1>0, <2>1, Zenon DEF Consistent, IdsGrow, ReferencesKeepMeaning, CallFits, AnswersFitRequests, Quiet
  <2>6. StopsBound'
        BY <1>0, <2>1, <2>3, <2>4, Zenon DEF StopsBound
  <2>7. WorkFits'
    <3>1. Idle.step = "idle" /\ ~Idle.wanted
          BY LoopWorkTyped
    <3> QED BY <1>0, <3>1, Zenon DEF WorkFits, IsInspection
  <2>8. ASSUME NEW i \in DOMAIN queue', NEW w, w = queue'[i]
        PROVE  Queued(w)' /\ ~Current(w)'
    <3>1. Queued(w) /\ w \in Work
          BY <1>0, <2>8, ElementTyped, Zenon DEF Consistent, QueueInOrder, Typed
    <3>2. w.epoch \in Nat
          BY <3>1 DEF Work
    <3>3. IsInspection(w) => w.step = "run"
          BY <3>1, Zenon DEF Queued, IsInspection
    <3>4. w.step = "run" => w.epoch <= snap'.epoch /\ ~SameStoppedEpoch(w.epoch)'
          BY <2>3, <3>1, <3>2, Zenon DEF Queued, RequestFits
    <3>5. w.step = "run" => RequestFits(w)'
          BY <1>0, <3>1, <3>4, Zenon DEF Queued, RequestFits
    <3>6. ~work'.wanted /\ ~IsInspection(work)'
          BY <1>0, LoopWorkTyped, Zenon DEF IsInspection
    <3>7. Queued(w)'
          BY <1>0, <2>1, <3>1, <3>5, <3>6, Zenon DEF Queued
    <3>8. ~Current(w)'
          BY <3>3, <3>4, Zenon DEF Current, SameStoppedEpoch, IsInspection
    <3> QED BY <3>7, <3>8
  <2>9. ASSUME NEW i \in DOMAIN queue', NEW j \in DOMAIN queue', NEW v, NEW w,
               v = queue'[i], w = queue'[j]
        PROVE  /\ i < j /\ Current(v)' => ~Stale(w)'
               /\ i # j => ~(v.wanted /\ w.wanted)
        BY <1>0, <2>8, <2>9, Zenon DEF Consistent, QueueInOrder
  <2>10. QueueInOrder'
        BY <2>8, <2>9, QueueIntro
  <2> QED BY <2>5, <2>6, <2>7, <2>10, Zenon DEF Consistent
<1> QED BY <1>1, <1>2

(* What an entry of the answer stands for is the handle minted for it.      *)
LEMMA MeaningIsMinted ==
    ASSUME Typed, WorkFits, mode = "open", work.step = "mint", NEW i \in DOMAIN work.result
    PROVE  Meaning(work.req, i, work.result[i]) = MintedRef(work, i)
<1>1. MintFits(work) /\ RequestFits(work) /\ work.epoch = snap.epoch
      BY Zenon DEF WorkFits, IsInspection, SameStoppedEpoch
<1>2. CASE work.req.op \in {"stack", "evaluateTop"}
  <2>1. work.base.core = work.req.core /\ work.result[i].label = work.req.page.start + i - 1
        BY <1>1, <1>2, Zenon DEF MintFits, AskedCore, FramesInOrder
  <2>2. /\ MintedKind(work.req) = "frame"
        /\ MintedPath(work, work.result[i].label) = <<work.result[i].label>>
        BY <1>2 DEF MintedKind, MintedPath
  <2>3. Meaning(work.req, i, work.result[i]) =
            Ref(work.result[i].id, "frame", work.req.core, snap.epoch, <<work.req.page.start + i - 1>>)
        BY <1>2 DEF Meaning
  <2> QED BY <1>1, <2>1, <2>2, <2>3, Zenon DEF MintedRef
<1>3. CASE work.req.op \in {"scopes", "evaluate", "variables"}
  <2>1. work.base = work.req.ref /\ work.req.ref.epoch = work.epoch
        BY <1>1, <1>3, Zenon DEF MintFits
  <2>2. CASE work.req.op = "scopes"
        BY <2>1, <2>2 DEF Meaning, MintedRef, MintedKind, MintedPath
  <2>3. CASE work.req.op = "evaluate"
        BY <2>1, <2>3 DEF Meaning, MintedRef, MintedKind, MintedPath
  <2>4. CASE work.req.op = "variables"
        BY <2>1, <2>4 DEF Meaning, MintedRef, MintedKind, MintedPath
  <2> QED BY <1>3, <2>2, <2>3, <2>4
<1>4. CASE work.req.op = "memory"
  <2>1. work.result = <<>>
        BY <1>1, <1>4, Zenon DEF MintFits
  <2> QED BY <2>1
<1>5. work.req.op \in Ops /\ work.req.op # "none"
      BY <1>1, Zenon DEF Typed, Work, Requests, RequestFits
<1> QED BY <1>2, <1>3, <1>4, <1>5, Zenon DEF Ops

(* Hence every reference an answer gives out is in the store.               *)
LEMMA GivenIsLive ==
    ASSUME Typed, WorkFits, mode = "open", work.step = "mint"
    PROVE  References(work.req, work.result) \subseteq live
<1>1. SUFFICES ASSUME NEW r \in References(work.req, work.result)
               PROVE  r \in live
      OBVIOUS
<1>2. PICK i \in {j \in Shown(work.req, work.result) : work.result[j].id # 0} :
          r = Meaning(work.req, i, work.result[i])
      BY Zenon DEF References
<1>3. i \in DOMAIN work.result /\ work.result[i].id # 0
      BY Zenon DEF Shown
<1> QED BY <1>2, <1>3, MeaningIsMinted, Zenon DEF WorkFits, MintFits

LEMMA TopFrameIsLive ==
    ASSUME Typed, WorkFits, mode = "open", work.step = "mint",
           work.req.op = "evaluateTop", work.result # <<>>
    PROVE  TopFrame(work) \in live
<1>1. work.result \in Seq([label : Nat, id : Nat])
      BY DEF Typed, Work
<1>2. 1 \in DOMAIN work.result
      BY <1>1, NotEmpty, Zenon
<1>3. work.result[1].id # 0 /\ MintedRef(work, 1) \in live
      BY <1>2, Zenon DEF WorkFits, MintFits, FramesInOrder
<1> QED BY <1>2, <1>3, MeaningIsMinted, Zenon DEF TopFrame

(* The answer is about what the request names.                              *)
LEMMA AnswerFits ==
    ASSUME Typed, WorkFits, mode = "open", work.step = "mint", ReplyResult(work)
    PROVE  AnswersFitRequests'
<1>1. MintFits(work) /\ RequestFits(work) /\ SameStoppedEpoch(work.epoch)
      BY Zenon DEF WorkFits, IsInspection
<1>2. CASE Quiet
      BY <1>2 DEF Quiet, AnswersFitRequests
<1>3. CASE /\ work.req.op # "evaluateTop"
           /\ answer' = [req |-> work.req, core |-> work.base.core, epoch |-> work.epoch, session |-> snap,
                         address |-> IF work.req.op = "memory"
                                     THEN CheckedAddressOffset(work.req.pointer.address, work.req.offset)
                                     ELSE 0]
  <2>0. /\ answer'.req = work.req /\ answer'.core = work.base.core /\ answer'.epoch = work.epoch
        /\ answer'.session = snap
        /\ work.req.op = "memory" =>
              answer'.address = CheckedAddressOffset(work.req.pointer.address, work.req.offset)
        BY <1>3
  <2>1. answer'.core = AskedCore(answer'.req)
        BY <1>1, <2>0, Zenon DEF MintFits
  <2>2. answer'.epoch \in AskedEpochs(answer'.req)
    <3>0. work.epoch \in Nat /\ work.req.op \in Ops /\ work.req.op # "none"
          BY <1>1, Zenon DEF Typed, Work, Requests, RequestFits
    <3>1. CASE work.req.op = "stack"
          BY <2>0, <3>0, <3>1 DEF AskedEpochs
    <3>2. CASE work.req.op = "memory"
          BY <1>1, <2>0, <3>0, <3>2 DEF AskedEpochs, RequestFits
    <3>3. CASE work.req.op \in {"scopes", "variables", "evaluate"}
      <4>1. work.req.ref.epoch = work.epoch
            BY <1>1, <3>3, ZenonT(30) DEF MintFits
      <4> QED BY <2>0, <3>3, <4>1 DEF AskedEpochs
    <3> QED BY <1>3, <3>0, <3>1, <3>2, <3>3, ZenonT(30) DEF Ops
  <2>3. answer'.session = [state |-> "stopped", epoch |-> answer'.epoch]
        BY <1>1, <2>0 DEF SameStoppedEpoch, Typed, Sessions
  <2>4. work.req.op = "memory" => answer'.address = work.req.pointer.address + work.req.offset
    <3>1. work.req.pointer.address \in 0..(Word - 1)
          BY Zenon DEF Typed, Work, Requests, Pointers
    <3> QED BY <1>1, <2>0, <3>1, OffsetIsExact, Zenon DEF RequestFits
  <2> QED BY <2>0, <2>1, <2>2, <2>3, <2>4, ZenonT(30) DEF AnswersFitRequests, AskedCore, AskedEpochs
<1> QED BY <1>2, <1>3, Zenon DEF ReplyResult

LEMMA CompleteKeeps ==
    ASSUME Typed, Consistent, Complete
    PROVE  Consistent'
<1>0. /\ mode = "open" /\ work' = Idle /\ UNCHANGED <<mode, snap, next, queue>>
      /\ live' = LiveAfter(work) /\ IsInspection(work)
      BY Zenon DEF Complete, IsInspection
<1>1. SameStoppedEpoch(work.epoch) /\ live' = live
      BY <1>0, Zenon DEF Consistent, WorkFits, LiveAfter
<1>2. work.wanted => \A i \in DOMAIN queue : ~queue[i].wanted
      BY <1>0, Zenon DEF Consistent, QueueInOrder, Queued
<1>3. NoCall.at = "none"
      BY DEF NoCall
<1>4. CASE ReplyError(work)
  <2>1. /\ given' = given /\ answer' = NoAnswer
        /\ call' = IF work.wanted THEN NoCall ELSE call
        BY <1>4, Zenon DEF ReplyError, Quiet
  <2>2. CallFits' /\ AnswersFitRequests'
        BY <1>0, <1>3, <2>1, Zenon DEF Consistent, CallFits, AnswersFitRequests
  <2> QED BY <1>0, <1>1, <1>2, <2>1, <2>2, FinishKeeps, Zenon
<1>5. CASE work.step = "mint" /\ ReplyResult(work)
  <2>1. AnswersFitRequests'
        BY <1>0, <1>5, AnswerFits, Zenon DEF Consistent
  <2>2. CASE Quiet /\ UNCHANGED clientVars
        BY <1>0, <1>1, <2>2, CompleteOtherKeeps, Zenon DEF clientVars
  <2>3. CASE /\ work.wanted /\ work.req.op = "evaluateTop" /\ work.result # <<>>
             /\ call' = [at |-> "resume",
                         req |-> Request("evaluate", 0, TopFrame(work), NoPage, "", NoPointer, 0)]
             /\ given' = given \union {TopFrame(work)}
    <3>1. TopFrame(work) \in live
          BY <1>0, <1>5, <2>3, TopFrameIsLive, ZenonT(30) DEF Consistent
    <3>2. call'.at = "resume" /\ call'.req.op = "evaluate" /\ call'.req.ref \in given'
          BY <2>3, Zenon DEF Request
    <3>3. CallFits'
          BY <3>2 DEF CallFits
    <3> QED BY <1>0, <1>1, <1>2, <2>1, <2>3, <3>1, <3>3, FinishKeeps, Zenon
  <2>4. CASE /\ work.wanted /\ call' = NoCall
             /\ given' = given \union References(work.req, work.result)
    <3>1. References(work.req, work.result) \subseteq live
          BY <1>0, <1>5, GivenIsLive, Zenon DEF Consistent
    <3>2. CallFits'
          BY <1>3, <2>4 DEF CallFits
    <3> QED BY <1>0, <1>1, <1>2, <2>1, <2>4, <3>1, <3>2, FinishKeeps, Zenon
  <2> QED BY <1>5, <2>2, <2>3, <2>4, Zenon DEF ReplyResult
<1> QED BY <1>4, <1>5, Zenon DEF Complete

(* The session ends.                                                        *)
LEMMA EndKeeps ==
    ASSUME Typed, Consistent, FailClosed \/ Close
    PROVE  Consistent'
<1>1. /\ live' = {} /\ mode' # "open" /\ answer' = NoAnswer /\ given' \subseteq given
      /\ UNCHANGED <<next, snap>> /\ (call' = NoCall \/ call' = call)
      BY Zenon DEF FailClosed, Close, Quiet, ReleaseCaller
<1>2. IdsGrow' /\ ReferencesKeepMeaning' /\ StopsBound' /\ AnswersFitRequests'
      BY <1>1, Zenon DEF Consistent, IdsGrow, ReferencesKeepMeaning, StopsBound, AnswersFitRequests
<1>3. WorkFits' /\ QueueInOrder'
      BY <1>1, Zenon DEF WorkFits, QueueInOrder
<1>4. CallFits'
      BY <1>1, Zenon DEF Consistent, CallFits
<1> QED BY <1>2, <1>3, <1>4, Zenon DEF Consistent

(* A step of the worker leaves the queue as it was: while an inspection is  *)
(* in flight nothing queued belongs to an earlier stop.                     *)
LEMMA WorkerQueue ==
    ASSUME QueueInOrder, IsInspection(work), work'.wanted = work.wanted,
           UNCHANGED <<mode, snap, queue, call, given>>
    PROVE  QueueInOrder'
<1>1. CASE mode # "open"
      BY <1>1, ZenonT(30) DEF QueueInOrder
<1>2. CASE mode = "open"
  <2>1. ASSUME NEW i \in DOMAIN queue', NEW w, w = queue'[i]
        PROVE  Queued(w)'
    <3>1. Queued(w)
          BY <1>2, <2>1, Zenon DEF QueueInOrder
    <3>2. ~Stale(w)
          BY <3>1, Zenon DEF Queued
    <3> QED BY <3>1, <3>2, SameSession, Zenon DEF Queued
  <2>2. ASSUME NEW i \in DOMAIN queue', NEW j \in DOMAIN queue', NEW v, NEW w,
               v = queue'[i], w = queue'[j]
        PROVE  /\ i < j /\ Current(v)' => ~Stale(w)'
               /\ i # j => ~(v.wanted /\ w.wanted)
    <3>1. (Current(v)' => Current(v)) /\ (Stale(w)' => Stale(w))
          BY SameSession, Zenon
    <3> QED BY <1>2, <2>2, <3>1, Zenon DEF QueueInOrder
  <2> QED BY <2>1, <2>2, QueueIntro
<1> QED BY <1>1, <1>2

(* It keeps the request and the caller of its work, and the rest of the     *)
(* invariant is about what it read and minted.                              *)
LEMMA WorkerKeeps ==
    ASSUME Consistent, IsInspection(work), UNCHANGED <<mode, snap, queue, call, given>>,
           answer' = NoAnswer,
           IdsGrow', ReferencesKeepMeaning', StopsBound',
           NEW w, w = work', w.wanted = work.wanted, w.req = work.req, w.epoch = work.epoch,
           w.step \in {"mint", "failed"},
           mode = "open" /\ w.step = "mint" => MintFits(w)'
    PROVE  Consistent'
<1>1. QueueInOrder'
      BY WorkerQueue, Zenon DEF Consistent
<1>2. CallFits' /\ AnswersFitRequests'
      BY Zenon DEF Consistent, CallFits, AnswersFitRequests
<1>3. WorkFits'
  <2>1. CASE mode # "open"
        BY <2>1, Zenon DEF WorkFits
  <2>2. CASE mode = "open"
    <3>1. (work.wanted => call = Waiting(work.req)) /\ SameStoppedEpoch(work.epoch) /\ RequestFits(work)
          BY <2>2, Zenon DEF Consistent, WorkFits
    <3>2. RequestFits(w)
          BY <3>1, Zenon DEF RequestFits
    <3>3. SameStoppedEpoch(w.epoch)' /\ RequestFits(w)' /\ (w.wanted => call' = Waiting(w.req))
          BY <3>1, <3>2, SameSession, Zenon
    <3>4. w.step # "idle" /\ w.step # "run"
          OBVIOUS
    <3> QED BY <2>2, <3>3, <3>4, Zenon DEF WorkFits, SameStoppedEpoch, RequestFits, MintFits, IsInspection
  <2> QED BY <2>1, <2>2
<1> QED BY <1>1, <1>2, <1>3, Zenon DEF Consistent

LEMMA FailsKeeps ==
    ASSUME Typed, Consistent, IsInspection(work), Fails
    PROVE  Consistent'
<1>1. UNCHANGED <<mode, snap, next, live, queue, call, given>> /\ answer' = NoAnswer
      BY Zenon DEF Fails, clientVars, Quiet
<1>2. IdsGrow' /\ ReferencesKeepMeaning' /\ StopsBound'
      BY <1>1, Zenon DEF Consistent, IdsGrow, ReferencesKeepMeaning, StopsBound, SameStoppedEpoch
<1>3. PICK w : w = work'
      OBVIOUS
<1>4. w.wanted = work.wanted /\ w.req = work.req /\ w.epoch = work.epoch /\ w.step = "failed"
      BY <1>3 DEF Fails, Typed, Work
<1> QED BY <1>1, <1>2, <1>3, <1>4, WorkerKeeps, Zenon

(* What was read is the object the request names.                           *)
LEMMA RunKeeps ==
    ASSUME Typed, Consistent, work.step = "run",
           NEW base \in Reference, NEW values \in Seq(Entries), NEW selected \in Nat,
           NEW pc \in 0..(Word - 1), Mints(base, values, selected, pc), RunReads(base, values)
    PROVE  Consistent'
<1>1. UNCHANGED <<mode, snap, next, live, queue, call, given>> /\ answer' = NoAnswer
      BY Zenon DEF Mints, clientVars, Quiet
<1>2. IdsGrow' /\ ReferencesKeepMeaning' /\ StopsBound'
      BY <1>1, Zenon DEF Consistent, IdsGrow, ReferencesKeepMeaning, StopsBound, SameStoppedEpoch
<1>3. PICK w : w = work'
      OBVIOUS
<1>4. /\ w.wanted = work.wanted /\ w.req = work.req /\ w.epoch = work.epoch /\ w.step = "mint"
      /\ w.base = base /\ w.todo = values /\ w.result = work.result
      BY <1>3 DEF Mints, Typed, Work
<1>5. ASSUME mode = "open"
      PROVE  MintFits(w)'
  <2>1. work.result = <<>> /\ RequestFits(work)
        BY <1>5, Zenon DEF Consistent, WorkFits, IsInspection
  <2>2. w.result = <<>> /\ DOMAIN w.result = {} /\ Len(w.result) = 0
        BY <1>4, <2>1
  <2>3. CASE work.req.op \in {"stack", "evaluateTop"}
    <3>1. /\ base.core = work.req.core
          /\ \A i \in DOMAIN values :
                values[i].label = work.req.page.start + i - 1 /\ values[i].expandable
          BY <2>3 DEF RunReads, Ref
    <3>2. w.base.core = AskedCore(w.req)
          BY <1>4, <2>3, <3>1 DEF AskedCore
    <3>3. FramesInOrder(w)
      <4>1. work.req.page.start \in Nat
            BY Zenon DEF Typed, Work, Requests
      <4>2. \A i \in DOMAIN values : i \in Nat
            BY ElementTyped
      <4>3. \A i \in DOMAIN values :
                work.req.page.start + Len(w.result) + i - 1 = work.req.page.start + i - 1
            BY <2>2, <4>1, <4>2
      <4> QED BY <1>4, <2>2, <3>1, <4>3, ZenonT(30) DEF FramesInOrder
    <3> QED BY <1>4, <2>2, <2>3, <3>2, <3>3, ZenonT(30) DEF MintFits
  <2>4. CASE work.req.op \in {"scopes", "variables", "evaluate"}
    <3>1. base \in live /\ base.id = work.req.ref.id /\ base.epoch = work.epoch
          BY <2>4 DEF RunReads, TheHandle, Resolve
    <3>2. base = work.req.ref
          BY <2>1, <2>4, <3>1, Zenon DEF RequestFits, Consistent, ReferencesKeepMeaning
    <3>3. w.base.core = AskedCore(w.req)
          BY <1>4, <2>4, <3>2 DEF AskedCore
    <3> QED BY <1>4, <2>2, <2>4, <3>1, <3>2, <3>3, ZenonT(30) DEF MintFits
  <2>5. CASE work.req.op = "memory"
    <3>1. base.core = work.req.pointer.core /\ values = <<>>
          BY <2>5 DEF RunReads, Ref
    <3>2. w.base.core = AskedCore(w.req)
          BY <1>4, <2>5, <3>1 DEF AskedCore
    <3> QED BY <1>4, <2>2, <2>5, <3>1, <3>2, ZenonT(30) DEF MintFits
  <2> QED BY <2>3, <2>4, <2>5, Zenon DEF RunReads
<1>6. IsInspection(work)
      BY DEF IsInspection
<1> QED BY <1>1, <1>2, <1>3, <1>4, <1>5, <1>6, WorkerKeeps, Zenon

(* A new handle has an id nobody knows, belongs to the stop in progress and *)
(* stands for the entry it was minted for.                                  *)
LEMMA MintKeeps ==
    ASSUME Typed, Consistent, Mint
    PROVE  Consistent'
<1>0. /\ Entry \in Entries /\ EntryId \in Nat /\ Minted \in Reference /\ Minted.id = EntryId
      /\ work.todo \in Seq(Entries) /\ work.result \in Seq([label : Nat, id : Nat])
      /\ [label |-> Entry.label, id |-> EntryId] \in [label : Nat, id : Nat]
      /\ Minted.epoch = work.epoch
      BY EntryTyped
<1>1. /\ work.step = "mint" /\ work.todo # <<>> /\ (Entry.expandable => next # 0)
      /\ next' = IF Entry.expandable THEN NextID(next) ELSE next
      /\ live' = IF Entry.expandable THEN live \union {Minted} ELSE live
      /\ answer' = NoAnswer
      /\ UNCHANGED <<mode, snap, queue, call, given>>
      BY MintStep
<1>2. IsInspection(work)
      BY <1>1 DEF IsInspection
<1>3. IdsGrow' /\ ReferencesKeepMeaning'
  <2>1. CASE ~Entry.expandable
        BY <1>1, <2>1, Zenon DEF Consistent, IdsGrow, ReferencesKeepMeaning
  <2>2. CASE Entry.expandable
    <3>1. Minted.id = next /\ next \in Nat \ {0} /\ next' \in Nat /\ (next' # 0 => next < next')
          BY <1>0, <1>1, <2>2, BoundsAssumption DEF EntryId, NextID, Typed
    <3>2. \A h \in live \union given : h.id \in Nat /\ h.id # 0 /\ h.id < next
          BY <3>1 DEF Consistent, IdsGrow, Typed, Reference
    <3>3. \A h \in live \union given : h.id # Minted.id /\ (next' # 0 => h.id < next')
          BY <3>1, <3>2
    <3>4. IdsGrow'
          BY <1>1, <2>2, <3>1, <3>2, <3>3, Zenon DEF Consistent, IdsGrow
    <3> QED BY <1>1, <2>2, <3>3, <3>4, ZenonT(30) DEF Consistent, ReferencesKeepMeaning
  <2> QED BY <2>1, <2>2
<1>4. StopsBound'
  <2>1. mode = "open" => SameStoppedEpoch(Minted.epoch)
        BY <1>0, <1>2, Zenon DEF Consistent, WorkFits
  <2> QED BY <1>1, <2>1, Zenon DEF Consistent, StopsBound, SameStoppedEpoch
<1>5. PICK w : w = work'
      OBVIOUS
<1> DEFINE new == [label |-> Entry.label, id |-> EntryId]
<1>6. /\ w.wanted = work.wanted /\ w.req = work.req /\ w.epoch = work.epoch /\ w.step = "mint"
      /\ w.base = work.base /\ w.todo = Tail(work.todo) /\ w.result = Append(work.result, new)
  <2>1. work' = [work EXCEPT !.todo = Tail(work.todo), !.result = Append(work.result, new)]
        BY MintStep, ZenonT(30)
  <2> HIDE DEF new
  <2> QED BY <1>1, <1>5, <2>1 DEF Typed, Work
<1>7. /\ DOMAIN work.result = 1..Len(work.result) /\ Len(work.result) \in Nat
      /\ DOMAIN w.result = 1..(Len(work.result) + 1) /\ Len(w.result) = Len(work.result) + 1
      /\ w.result[Len(work.result) + 1] = new
      /\ \A i \in DOMAIN work.result : w.result[i] = work.result[i]
  <2> HIDE DEF new
  <2>1. new \in [label : Nat, id : Nat]
        BY <1>0, Zenon DEF new
  <2> QED BY <1>0, <1>6, <2>1, Appended, SMTT(30)
<1>8. /\ 1 \in DOMAIN work.todo /\ Entry = work.todo[1]
      /\ \A i \in DOMAIN w.todo : i \in Nat /\ i + 1 \in DOMAIN work.todo /\ w.todo[i] = work.todo[i + 1]
  <2>1. /\ 1 \in DOMAIN work.todo /\ Head(work.todo) = work.todo[1]
        /\ \A i \in DOMAIN Tail(work.todo) :
              i + 1 \in DOMAIN work.todo /\ Tail(work.todo)[i] = work.todo[i + 1]
        /\ Tail(work.todo) \in Seq(Entries)
        BY <1>0, <1>1, NotEmpty, ZenonT(30)
  <2>2. \A i \in DOMAIN Tail(work.todo) : i \in Nat
        BY <2>1, ElementTyped
  <2> QED BY <1>6, <2>1, <2>2, Zenon DEF Entry
<1> HIDE DEF new
<1>9. ASSUME mode = "open"
      PROVE  MintFits(w)'
  <2>1. MintFits(work)
        BY <1>1, <1>9, Zenon DEF Consistent, WorkFits
  <2>2. w.req.op # "memory"
        BY <1>1, <1>6, <2>1, Zenon DEF MintFits
  <2>3. ASSUME w.req.op \in {"stack", "evaluateTop"}
        PROVE  FramesInOrder(w)
    <3>1. FramesInOrder(work)
          BY <1>6, <2>1, <2>3, Zenon DEF MintFits
    <3>2. work.req.page.start \in Nat
          BY Zenon DEF Typed, Work, Requests
    <3>3. Entry.label = work.req.page.start + Len(work.result) + 1 - 1 /\ Entry.expandable
          BY <1>8, <3>1, Zenon DEF FramesInOrder
    <3>4. new.label = Entry.label /\ new.id # 0
          BY <1>1, <3>3 DEF new, EntryId
    <3>5. ASSUME NEW i \in DOMAIN w.result
          PROVE  w.result[i].label = w.req.page.start + i - 1 /\ w.result[i].id # 0
      <4>1. CASE i \in DOMAIN work.result
            BY <1>6, <1>7, <3>1, <4>1, Zenon DEF FramesInOrder
      <4>2. CASE i = Len(work.result) + 1
        <5>1. work.req.page.start + Len(work.result) + 1 - 1 = work.req.page.start + i - 1
              BY <1>7, <3>2, <4>2
        <5> QED BY <1>6, <1>7, <3>3, <3>4, <4>2, <5>1, ZenonT(30)
      <4>3. i \in DOMAIN work.result \/ i = Len(work.result) + 1
            BY <1>7
      <4> QED BY <4>1, <4>2, <4>3
    <3>6. ASSUME NEW i \in DOMAIN w.todo
          PROVE  w.todo[i].label = w.req.page.start + Len(w.result) + i - 1 /\ w.todo[i].expandable
      <4>1. /\ w.todo[i] = work.todo[i + 1] /\ i \in Nat
            /\ work.todo[i + 1].label = work.req.page.start + Len(work.result) + (i + 1) - 1
            /\ work.todo[i + 1].expandable
            BY <1>8, <3>1, Zenon DEF FramesInOrder
      <4>2. work.req.page.start + Len(work.result) + (i + 1) - 1
                = work.req.page.start + Len(w.result) + i - 1
        <5>1. i \in Nat /\ Len(work.result) \in Nat /\ Len(w.result) = Len(work.result) + 1
              BY <1>7, <4>1, Zenon
        <5> QED BY <3>2, <5>1, SMTT(30)
      <4> QED BY <1>6, <4>1, <4>2, Zenon
    <3> QED BY <3>5, <3>6, Zenon DEF FramesInOrder
  <2>4. ASSUME NEW i \in DOMAIN w.result, w.result[i].id # 0
        PROVE  MintedRef(w, i) \in live'
    <3>1. CASE i \in DOMAIN work.result
      <4>1. w.result[i] = work.result[i] /\ MintedRef(work, i) \in live
            BY <1>7, <2>1, <2>4, <3>1, Zenon DEF MintFits
      <4>2. MintedRef(w, i) = MintedRef(work, i)
            BY <1>6, <4>1, Zenon DEF MintedRef, MintedPath
      <4> QED BY <1>1, <4>1, <4>2, Zenon
    <3>2. CASE i = Len(work.result) + 1
      <4>1. w.result[i] = new /\ new.id = EntryId /\ new.label = Entry.label /\ new.id # 0
            BY <1>7, <2>4, <3>2 DEF new
      <4>2. Entry.expandable
            BY <4>1 DEF EntryId
      <4>3. MintedRef(w, i) = Minted
            BY <1>6, <4>1, Zenon DEF MintedRef, Minted, MintedPath
      <4> QED BY <1>1, <4>2, <4>3, Zenon
    <3>3. i \in DOMAIN work.result \/ i = Len(work.result) + 1
          BY <1>7
    <3> QED BY <3>1, <3>2, <3>3
  <2> QED BY <1>6, <2>1, <2>2, <2>3, <2>4, Zenon DEF MintFits
<1> QED BY <1>1, <1>2, <1>3, <1>4, <1>5, <1>6, <1>9, WorkerKeeps, ZenonT(30)

-----------------------------------------------------------------------------
(* The theorems.                                                            *)

LEMMA InvNamed == (InspectionInv <=> Typed /\ Consistent) /\ (InspectionInv' <=> Typed' /\ Consistent')
BY TypesNamed, Zenon DEF InspectionInv, Consistent

LEMMA Initially == Init => InspectionInv
<1> SUFFICES ASSUME Init
             PROVE  Typed /\ Consistent
    BY InvNamed, Zenon
<1>1. /\ NoAnswer \in Answers /\ NoCall \in Calls /\ Idle \in Work
      /\ Idle.step = "idle" /\ ~Idle.wanted /\ NoCall.at = "none"
      BY CallsTyped, LoopWorkTyped DEF NoCall
<1>2. snap \in Sessions /\ next \in 0..MaxID /\ queue \in Seq(Work)
      BY BoundsAssumption DEF Init, Sessions
<1>3. Typed
      BY <1>1, <1>2, Zenon DEF Typed, Init
<1>4. DOMAIN queue = {}
      BY DEF Init
<1>5. QueueInOrder /\ WorkFits
      BY <1>1, <1>4, ZenonT(30) DEF QueueInOrder, WorkFits, Init, IsInspection
<1>6. CallFits /\ AnswersFitRequests
      BY <1>1 DEF CallFits, AnswersFitRequests, Init
<1>7. IdsGrow /\ ReferencesKeepMeaning /\ StopsBound
      BY Zenon DEF IdsGrow, ReferencesKeepMeaning, StopsBound, Init
<1> QED BY <1>3, <1>5, <1>6, <1>7, Zenon DEF Consistent

LEMMA Inductive == InspectionInv /\ [Next]_vars => InspectionInv'
<1> SUFFICES ASSUME Typed, Consistent, [Next]_vars
             PROVE  Consistent'
    BY InvNamed, TypesNamed, Typing, Zenon
<1>1. CASE AskSomething
  <2>1. PICK req : Askable(req) /\ Ask(req)
        BY <1>1, AskedRequest, TypesNamed, Zenon
  <2>2. call.at # "waiting" /\ Accepts(req)
        BY <2>1 DEF Ask, NoCall
  <2> QED BY <2>1, <2>2, EnqueueKeeps, Zenon DEF Ask
<1>2. CASE Resume \/ GiveUp
      BY <1>2, ResumeKeeps, GiveUpKeeps, Zenon
<1>3. CASE Tick(Sample) \/ Tick(Other)
  <2>1. /\ Sample \in Work /\ ~Sample.wanted /\ Sample.step \in {"sample", "other"}
        /\ Other \in Work /\ ~Other.wanted /\ Other.step \in {"sample", "other"}
        BY LoopWorkTyped
  <2> QED BY <1>3, <2>1, TickKeeps, Zenon
<1>4. CASE CompleteOther
      BY <1>4, CompleteOtherKeeps, Zenon DEF CompleteOther, clientVars
<1>5. CASE StartNext \/ Observe \/ Complete
      BY <1>5, StartNextKeeps, ObserveKeeps, CompleteKeeps, Zenon
<1>6. CASE Run
  <2>1. work.step = "run" /\ IsInspection(work)
        BY <1>6 DEF Run, IsInspection
  <2>2. CASE Fails
        BY <2>1, <2>2, FailsKeeps, Zenon
  <2>3. CASE \E base \in Reference, values \in Seq(Entries), selected \in Nat, pc \in 0..(Word - 1) :
                 Mints(base, values, selected, pc) /\ RunReads(base, values)
        BY <2>1, <2>3, RunKeeps, Zenon
  <2> QED BY <1>6, <2>2, <2>3, RunMints, Zenon
<1>7. CASE Mint
      BY <1>7, MintKeeps
<1>8. CASE MintFails
  <2>1. Fails /\ IsInspection(work)
        BY <1>8 DEF MintFails, IsInspection
  <2> QED BY <2>1, FailsKeeps
<1>9. CASE FailClosed \/ Close
      BY <1>9, EndKeeps
<1>10. CASE UNCHANGED vars
  <2>1. UNCHANGED <<mode, snap, next, live, queue, work, call, given, pointers, answer>>
        BY <1>10, Zenon DEF vars, actorVars, clientVars
  <2>2. IdsGrow' /\ ReferencesKeepMeaning' /\ StopsBound' /\ CallFits' /\ AnswersFitRequests'
        BY <2>1, Zenon DEF Consistent, IdsGrow, ReferencesKeepMeaning, StopsBound,
              SameStoppedEpoch, CallFits, AnswersFitRequests
  <2>3. WorkFits'
        BY <2>1, Zenon DEF Consistent, WorkFits, IsInspection, SameStoppedEpoch, RequestFits, MintFits
  <2>4. QueueInOrder'
    <3>1. CASE mode # "open"
          BY <2>1, <3>1, Zenon DEF QueueInOrder
    <3>2. CASE mode = "open"
      <4>1. ASSUME NEW i \in DOMAIN queue', NEW w, w = queue'[i]
            PROVE  Queued(w)'
            BY <2>1, <3>2, <4>1, SameSession, Zenon DEF Consistent, QueueInOrder, Queued, IsInspection
      <4>2. ASSUME NEW i \in DOMAIN queue', NEW j \in DOMAIN queue', NEW v, NEW w,
                   v = queue'[i], w = queue'[j]
            PROVE  /\ i < j /\ Current(v)' => ~Stale(w)'
                   /\ i # j => ~(v.wanted /\ w.wanted)
            BY <2>1, <3>2, <4>2, SameSession, Zenon DEF Consistent, QueueInOrder
      <4> QED BY <4>1, <4>2, QueueIntro
    <3> QED BY <3>1, <3>2
  <2> QED BY <2>2, <2>3, <2>4, Zenon DEF Consistent
<1> QED BY <1>1, <1>2, <1>3, <1>4, <1>5, <1>6, <1>7, <1>8, <1>9, <1>10, Zenon
        DEF Next, AskSomething, Loop, Worker

(* The inductive invariant of the handle store, the actor's queue and the   *)
(* worker holds in every behaviour.                                         *)
THEOREM InspectionInvariant == Spec => []InspectionInv
BY Initially, Inductive, PTL DEF Spec

(* A reference that was ever given out names, if it names anything, exactly *)
(* the object it was given out for.                                         *)
THEOREM MeaningsAreKept == Spec => []ReferencesKeepMeaning
<1>1. InspectionInv => ReferencesKeepMeaning
      BY DEF InspectionInv
<1> QED BY <1>1, InspectionInvariant, PTL

(* While the session is open a reference resolves exactly as long as the    *)
(* session is in the stop it was given out in.                              *)
THEOREM ReferencesLast == Spec => []ReferencesLastTheirStop
<1>1. InspectionInv => ReferencesLastTheirStop
  <2> SUFFICES ASSUME InspectionInv, mode = "open", NEW g \in given
               PROVE  SameStoppedEpoch(g.epoch)
                         <=> Resolve(g.id, snap.epoch, snap.state = "stopped") # {}
      BY Zenon DEF ReferencesLastTheirStop
  <2>1. ASSUME SameStoppedEpoch(g.epoch)
        PROVE  g \in Resolve(g.id, snap.epoch, snap.state = "stopped")
        BY <2>1, Zenon DEF InspectionInv, StopsBound, Resolve, SameStoppedEpoch
  <2>2. ASSUME NEW h \in Resolve(g.id, snap.epoch, snap.state = "stopped")
        PROVE  SameStoppedEpoch(g.epoch)
    <3>1. h \in live /\ h.id = g.id
          BY Zenon DEF Resolve
    <3>2. h = g
          BY <3>1, Zenon DEF InspectionInv, ReferencesKeepMeaning
    <3> QED BY <3>1, <3>2, Zenon DEF InspectionInv, StopsBound
  <2> QED BY <2>1, <2>2, Zenon
<1> QED BY <1>1, InspectionInvariant, PTL

(* Data answered to a request is of the core and the stop that the request  *)
(* names, and memory of the very address.                                   *)
THEOREM AnswersFit == Spec => []AnswersFitRequests
<1>1. InspectionInv => AnswersFitRequests
      BY DEF InspectionInv
<1> QED BY <1>1, InspectionInvariant, PTL

=============================================================================
