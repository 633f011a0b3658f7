------------------------- MODULE InferExchangeProofs -------------------------
(***************************************************************************)
(* Proofs about InferExchange for any tensors and any bounds.              *)
(*                                                                         *)
(* XInv is inductive.  RequestInv follows the inputs to the backend,       *)
(* PayloadInv says what the outputs registered so far have made of a       *)
(* payload, AnswerInv what of that the answer keeps, and ClientInv which   *)
(* answer the client's context has.                                        *)
(***************************************************************************)
EXTENDS InferExchange, FiniteSetTheorems, SequenceTheorems, TLAPS

\* m is the last place of idx in s, or NoBytes if there is none.
IsLast(s, idx, m) ==
    /\ m \in DOMAIN s \cup {NoBytes}
    /\ m # NoBytes => s[m] = idx
    /\ \A n \in DOMAIN s : s[n] = idx => n <= m

\* described is what outputs registered one after the other are described as.
Described(described, s) ==
    Len(described) = Len(s) /\ \A n \in DOMAIN s : described[n] = n

RequestInv ==
    /\ request.input = request.raw_input /\ request.input = added
    /\ \A k \in Calls : /\ payload[k].input = payload[k].inputs_memory
                        /\ payload[k].input = payload[k].asked

PayloadOf(k) ==
    /\ k > calls => payload[k].pc = "none"
    /\ payload[k].pc \in {"none", "sent"} => registered[k] = <<>>
    /\ payload[k].pc # "completed" =>
          /\ Described(payload[k].output, registered[k])
          /\ \A idx \in Indices :
                IsLast(registered[k], idx, payload[k].output_buffer_map[idx])
          /\ \A n \in DOMAIN registered[k] : registered[k][n] <= payload[k].max_output_index

PayloadInv == \A k \in Calls : PayloadOf(k)

AnswerOf(k) ==
    /\ answer[k].code = "SUCCESS" =>
          /\ payload[k].pc = "completed"
          /\ Described(answer[k].meta_data, registered[k])
          /\ Len(answer[k].raw_output) \in 1 .. MaxIndex + 1
          /\ \A idx \in 0 .. Len(answer[k].raw_output) - 1 :
                IsLast(registered[k], idx, answer[k].raw_output[idx + 1])
          /\ \A n \in DOMAIN registered[k] : registered[k][n] < Len(answer[k].raw_output)
    /\ answer[k].code # "SUCCESS" => answer[k].meta_data = <<>>

AnswerInv == \A k \in Calls : AnswerOf(k)

ClientInv ==
    /\ client = "waiting" => cleared < calls /\ calls \notin gaveUp /\ response.of < calls
    /\ client = "failed" => response.is.meta_data = <<>>
    /\ response.of # 0 =>
          /\ response.of \in (cleared + 1 .. calls) \ gaveUp
          /\ response.of + 1 .. calls \subseteq
                gaveUp \cup (IF client = "waiting" THEN {calls} ELSE {})

XInv == TypeOK /\ RequestInv /\ PayloadInv /\ AnswerInv /\ ClientInv

-----------------------------------------------------------------------------

LEMMA FunctionIsSeq ==
  ASSUME NEW n \in Nat, NEW S, NEW f \in [1 .. n -> S]
  PROVE  f \in Seq(S) /\ Len(f) = n
OBVIOUS

\* What CHOOSE chooses in Max.
LEMMA MaxIs ==
  ASSUME NEW S \in SUBSET Int, NEW m \in S, \A n \in S : m >= n
  PROVE  Max(S) = m
<1>1. Max(S) \in S /\ \A n \in S : Max(S) >= n
  BY DEF Max
<1>2. Max(S) \in Int /\ m \in Int /\ Max(S) >= m /\ m >= Max(S)
  BY <1>1
<1> QED
  BY <1>2

LEMMA MaxOfTwo ==
  ASSUME NEW a \in Int, NEW b \in Int
  PROVE  Max({a, b}) = IF a >= b THEN a ELSE b
BY MaxIs

\* LastRegistered computes what IsLast describes.
LEMMA LastIs ==
  ASSUME NEW k \in Calls, registered[k] \in Seq(Indices), NEW idx, NEW m,
         IsLast(registered[k], idx, m)
  PROVE  LastRegistered(k, idx) = m
<1> DEFINE S == {n \in DOMAIN registered[k] : registered[k][n] = idx} \cup {NoBytes}
<1>1. S \in SUBSET Int /\ m \in S /\ \A n \in S : m >= n
  BY DEF IsLast, NoBytes
<1> QED
  BY <1>1, MaxIs DEF LastRegistered

\* One more registration, under idx.
LEMMA LastAfterAppend ==
  ASSUME NEW s \in Seq(Indices), NEW idx \in Indices, NEW i \in Indices, NEW m,
         IsLast(s, i, m)
  PROVE  IsLast(Append(s, idx), i, IF i = idx THEN Len(s) + 1 ELSE m)
<1>1. /\ DOMAIN s = 1 .. Len(s) /\ DOMAIN Append(s, idx) = 1 .. Len(s) + 1
      /\ Append(s, idx)[Len(s) + 1] = idx
      /\ \A n \in 1 .. Len(s) : Append(s, idx)[n] = s[n]
  OBVIOUS
<1> QED
  BY <1>1 DEF IsLast, NoBytes

\* n different indices that are not negative do not fit below n - 1.
LEMMA DifferentIndices ==
  ASSUME NEW s \in Seq(Indices), OwnIndices(s), NEW m \in Nat, \A n \in DOMAIN s : s[n] < m
  PROVE  Len(s) <= m
<1>1. s \in Injection(1 .. Len(s), 0 .. m - 1)
  <2>1. s \in [1 .. Len(s) -> 0 .. m - 1]
    BY ExchangeAssumption DEF OwnIndices, Indices
  <2> QED
    BY <2>1 DEF Injection, IsInjective, OwnIndices
<1>2. IsFiniteSet(0 .. m - 1) /\ Cardinality(0 .. m - 1) = m
  BY FS_Interval
<1>3. Cardinality(1 .. Len(s)) = Len(s)
  <2>1. Len(s) \in Nat
    OBVIOUS
  <2>2. Cardinality(1 .. Len(s)) = IF 1 > Len(s) THEN 0 ELSE Len(s) - 1 + 1
    BY <2>1, FS_Interval
  <2> QED
    BY <2>1, <2>2
<1>4. Cardinality(1 .. Len(s)) <= Cardinality(0 .. m - 1)
  BY <1>1, <1>2, FS_Injection
<1> QED
  BY <1>2, <1>3, <1>4

-----------------------------------------------------------------------------

\* Building the request and clearing the context touch no call.
LEMMA RequestSteps ==
  ASSUME XInv,
         \/ \E t \in Tensors : AddInferInput(t)
         \/ \E inputs \in UpTo(Tensors, MaxInputs), shapes \in 0 .. MaxInputs,
               names \in {Null} \cup 0 .. MaxInputs : AddInferInputs(inputs, shapes, names)
         \/ Clear
  PROVE  XInv'
<1> USE DEF XInv
<1>1. UNCHANGED <<client, calls, gaveUp, payload, answer, registered>>
  BY DEF AddInferInput, AddInferInputs, Clear
<1>2. /\ request' \in [input : Seq(Tensors), raw_input : Seq(Tensors)]
      /\ Len(request'.input) <= MaxInputs
      /\ request'.input = request'.raw_input /\ request'.input = added'
  <2>0. /\ request = [input |-> request.input, raw_input |-> request.raw_input]
        /\ request.input \in Seq(Tensors) /\ request.raw_input = request.input
        /\ added = request.input
        /\ Len(request.input) <= MaxInputs
    BY DEF TypeOK, RequestInv
  <2>1. ASSUME NEW t \in Tensors, AddInferInput(t)
        PROVE  /\ request' \in [input : Seq(Tensors), raw_input : Seq(Tensors)]
               /\ Len(request'.input) <= MaxInputs
               /\ request'.input = request'.raw_input /\ request'.input = added'
    BY <2>0, <2>1, ExchangeAssumption DEF AddInferInput, WithInput
  <2>2. ASSUME NEW inputs \in UpTo(Tensors, MaxInputs), NEW shapes \in 0 .. MaxInputs,
               NEW names \in {Null} \cup 0 .. MaxInputs, AddInferInputs(inputs, shapes, names)
        PROVE  /\ request' \in [input : Seq(Tensors), raw_input : Seq(Tensors)]
               /\ Len(request'.input) <= MaxInputs
               /\ request'.input = request'.raw_input /\ request'.input = added'
    <3>1. inputs \in Seq(Tensors)
      BY DEF UpTo
    <3>2. request.input \o inputs \in Seq(Tensors)
             /\ Len(request.input \o inputs) = Len(request.input) + Len(inputs)
      BY <2>0, <3>1
    <3> QED
      BY <2>0, <2>2, <3>1, <3>2 DEF AddInferInputs
  <2>3. CASE Clear
    BY <2>3, ExchangeAssumption DEF Clear, EmptyRequest
  <2> QED
    BY <2>1, <2>2, <2>3
<1>3. \/ UNCHANGED <<response, cleared>>
      \/ /\ client # "waiting"
         /\ response' = [of |-> 0, is |-> EmptyResponse]
         /\ cleared' = calls
  BY DEF AddInferInput, AddInferInputs, Clear
<1>4. response' \in [of : 0 .. MaxCalls, is : Responses] /\ cleared' \in 0 .. calls
  <2>1. EmptyResponse \in Responses
    BY DEF EmptyResponse, Responses
  <2> QED
    BY <1>3, <2>1, ExchangeAssumption DEF TypeOK
<1>5. TypeOK'
  BY <1>1, <1>2, <1>4 DEF TypeOK
<1>6. RequestInv' /\ PayloadInv' /\ AnswerInv'
  BY <1>1, <1>2 DEF RequestInv, PayloadInv, PayloadOf, AnswerInv, AnswerOf
<1>7. ClientInv'
  BY <1>1, <1>3 DEF ClientInv, EmptyResponse
<1> QED
  BY <1>5, <1>6, <1>7

\* Infer makes the next call, which nobody has answered or given up on.
LEMMA InferStep ==
  ASSUME XInv, Infer
  PROVE  XInv'
<1> USE DEF XInv
<1>0. /\ calls \in Nat /\ calls + 1 \in Calls /\ MaxCalls \in Nat
      /\ UNCHANGED <<request, added, response, cleared, gaveUp, answer, registered>>
      /\ calls' = calls + 1 /\ client # "waiting" /\ client' = "waiting"
  BY ExchangeAssumption DEF Infer, TypeOK, Calls
<1>1. \/ UNCHANGED payload
      \/ /\ payload'[calls + 1] = [payload[calls + 1] EXCEPT !.pc = "sent", !.asked = added,
                                        !.input = request.input,
                                        !.inputs_memory = request.raw_input]
         /\ \A k \in Calls : k # calls + 1 => payload'[k] = payload[k]
         /\ payload' \in [Calls -> Payloads]
  <2>1. CASE payload' = [payload EXCEPT ![calls + 1].pc = "sent",
                                        ![calls + 1].asked = added,
                                        ![calls + 1].input = request.input,
                                        ![calls + 1].inputs_memory = request.raw_input]
    <3>1. payload \in [Calls -> Payloads] /\ calls + 1 \in Calls
      BY <1>0 DEF TypeOK
    <3>2. /\ payload'[calls + 1] = [payload[calls + 1] EXCEPT !.pc = "sent", !.asked = added,
                                        !.input = request.input,
                                        !.inputs_memory = request.raw_input]
          /\ \A k \in Calls : k # calls + 1 => payload'[k] = payload[k]
          /\ DOMAIN payload' = Calls /\ payload' = [k \in Calls |-> payload'[k]]
      BY <2>1, <3>1
    <3>3. payload'[calls + 1] \in Payloads
      <4>1. payload[calls + 1] \in Payloads
        BY <3>1
      <4>2. /\ request.input \in Seq(Tensors) /\ request.raw_input \in Seq(Tensors)
            /\ added \in Seq(Tensors)
        BY DEF TypeOK
      <4> QED
        BY <3>2, <4>1, <4>2 DEF Payloads
    <3> QED
      BY <3>1, <3>2, <3>3
  <2> QED
    BY <2>1 DEF Infer
<1>2. TypeOK'
  BY <1>0, <1>1 DEF TypeOK, Calls
<1>3. RequestInv'
  <2>1. ASSUME NEW k \in Calls
        PROVE  /\ payload'[k].input = payload'[k].inputs_memory
               /\ payload'[k].input = payload'[k].asked
    <3>1. /\ payload[k] \in Payloads /\ payload[k].input = payload[k].inputs_memory
          /\ payload[k].input = payload[k].asked
          /\ request.input = request.raw_input /\ request.input = added
      BY DEF TypeOK, RequestInv
    <3>2. CASE payload'[k] = payload[k]
      BY <3>1, <3>2
    <3>3. CASE payload'[k] = [payload[k] EXCEPT !.pc = "sent", !.asked = added,
                                        !.input = request.input,
                                        !.inputs_memory = request.raw_input]
      <4>1. payload'[k].input = request.input /\ payload'[k].inputs_memory = request.raw_input
               /\ payload'[k].asked = added
        BY <3>1, <3>3 DEF Payloads
      <4> QED
        BY <3>1, <4>1
    <3> QED
      BY <1>1, <3>2, <3>3
  <2> QED
    BY <1>0, <2>1 DEF RequestInv
<1>4. ASSUME NEW k \in Calls PROVE PayloadOf(k)' /\ AnswerOf(k)'
  <2>1. PayloadOf(k) /\ AnswerOf(k) /\ k \in Nat
    BY DEF PayloadInv, AnswerInv, Calls
  <2>2. CASE payload'[k] = payload[k]
    BY <1>0, <2>1, <2>2 DEF PayloadOf, AnswerOf
  <2>3. CASE k = calls + 1 /\ payload'[k] = [payload[k] EXCEPT !.pc = "sent", !.asked = added,
                                        !.input = request.input,
                                        !.inputs_memory = request.raw_input]
    <3>1. payload[k] \in Payloads /\ payload[k].pc = "none"
      BY <1>0, <2>1, <2>3 DEF TypeOK, PayloadOf
    <3>2. /\ payload'[k].pc = "sent" /\ payload'[k].output = payload[k].output
          /\ payload'[k].output_buffer_map = payload[k].output_buffer_map
          /\ payload'[k].max_output_index = payload[k].max_output_index
      BY <2>3, <3>1 DEF Payloads
    <3> QED
      BY <1>0, <2>1, <2>3, <3>1, <3>2 DEF PayloadOf, AnswerOf
  <2> QED
    BY <1>1, <2>2, <2>3
<1>5. ClientInv'
  <2>1. cleared \in Nat /\ cleared <= calls /\ response.of \in Nat /\ gaveUp \subseteq 1 .. calls
    BY <1>0 DEF TypeOK
  <2>2. response.of <= calls
    BY <1>0, <2>1 DEF ClientInv
  <2> QED
    BY <1>0, <2>1, <2>2 DEF ClientInv
<1> QED
  BY <1>2, <1>3, <1>4, <1>5 DEF PayloadInv, AnswerInv

\* The call returns, or the client gives up on it.
LEMMA ReturnSteps ==
  ASSUME XInv, InferReturn \/ InferTimeout
  PROVE  XInv'
<1> USE DEF XInv
<1>1. UNCHANGED <<request, added, calls, cleared, payload, answer, registered>>
         /\ client = "waiting" /\ client' \in {"succeeded", "failed", "timeout"}
  BY DEF InferReturn, InferTimeout
<1>2. /\ calls \in Calls /\ calls \in Nat /\ cleared \in Nat /\ cleared < calls
      /\ calls \notin gaveUp /\ response.of < calls /\ response.of \in Nat
      /\ gaveUp \subseteq 1 .. calls
  BY <1>1, ExchangeAssumption DEF TypeOK, ClientInv, Calls
<1>3. RequestInv' /\ PayloadInv' /\ AnswerInv'
  BY <1>1 DEF RequestInv, PayloadInv, PayloadOf, AnswerInv, AnswerOf
<1>4. CASE InferReturn
  <2>1. answer[calls] \in Responses
    BY <1>2 DEF TypeOK
  <2>2. response' \in [of : 0 .. MaxCalls, is : Responses] /\ response'.of = calls
           /\ response'.is = answer[calls] /\ UNCHANGED gaveUp
    BY <1>2, <1>4, <2>1 DEF InferReturn, TypeOK
  <2>3. TypeOK'
    BY <1>1, <2>2 DEF TypeOK
  <2>4. client' = "failed" => answer[calls].meta_data = <<>>
    BY <1>2, <1>4 DEF InferReturn, AnswerInv, AnswerOf
  <2>5. ClientInv'
    BY <1>1, <1>2, <2>2, <2>4 DEF ClientInv
  <2> QED
    BY <1>3, <2>3, <2>5
<1>5. CASE InferTimeout
  <2>1. gaveUp' = gaveUp \cup {calls} /\ UNCHANGED response /\ client' = "timeout"
    BY <1>5 DEF InferTimeout
  <2>2. TypeOK'
    BY <1>1, <1>2, <2>1 DEF TypeOK
  <2>3. ClientInv'
    BY <1>1, <1>2, <2>1 DEF ClientInv
  <2> QED
    BY <1>3, <2>2, <2>3
<1> QED
  BY <1>4, <1>5

\* The payload is constructed.
LEMMA ConstructStep ==
  ASSUME XInv, NEW k \in Calls, ConstructPayload(k)
  PROVE  XInv'
<1> USE DEF XInv
<1>1. /\ UNCHANGED <<request, added, response, client, calls, cleared, gaveUp, answer, registered>>
      /\ payload[k] \in Payloads /\ payload[k].pc = "sent"
      /\ payload'[k] = [payload[k] EXCEPT !.pc = "running"]
      /\ \A c \in Calls : c # k => payload'[c] = payload[c]
      /\ payload' = [c \in Calls |-> payload'[c]]
  BY DEF ConstructPayload, TypeOK, clientVars
<1>2. payload'[k] \in Payloads /\ payload'[k].pc = "running"
         /\ payload'[k].input = payload[k].input
         /\ payload'[k].inputs_memory = payload[k].inputs_memory
         /\ payload'[k].asked = payload[k].asked
         /\ payload'[k].output = payload[k].output
         /\ payload'[k].output_buffer_map = payload[k].output_buffer_map
         /\ payload'[k].max_output_index = payload[k].max_output_index
  BY <1>1 DEF Payloads
<1>3. TypeOK'
  <2>1. payload' \in [Calls -> Payloads]
    BY <1>1, <1>2 DEF TypeOK
  <2> QED
    BY <1>1, <2>1 DEF TypeOK
<1>4. RequestInv' /\ ClientInv'
  BY <1>1, <1>2 DEF RequestInv, ClientInv
<1>5. ASSUME NEW c \in Calls PROVE PayloadOf(c)' /\ AnswerOf(c)'
  <2>1. PayloadOf(c) /\ AnswerOf(c)
    BY DEF PayloadInv, AnswerInv
  <2> QED
    BY <1>1, <1>2, <2>1 DEF PayloadOf, AnswerOf
<1> QED
  BY <1>3, <1>4, <1>5 DEF PayloadInv, AnswerInv

\* One more output: the last place of its index is the new one, that of every
\* other index stays, and no index is beyond the highest.
LEMMA RegisterStep ==
  ASSUME XInv, NEW k \in Calls, NEW idx \in Indices, RegisterInferOutput(k, idx)
  PROVE  XInv'
<1> USE DEF XInv
<1> DEFINE p == payload[k]
           n == Len(p.output) + 1
<1>0. /\ UNCHANGED <<request, added, response, client, calls, cleared, gaveUp, answer>>
      /\ p \in Payloads /\ p.pc = "running" /\ Len(p.output) < MaxOutputs
      /\ registered[k] \in Seq(Indices) /\ PayloadOf(k)
  BY DEF RegisterInferOutput, TypeOK, clientVars, PayloadInv
<1>1. /\ registered'[k] = Append(registered[k], idx)
      /\ \A c \in Calls : c # k => registered'[c] = registered[c] /\ payload'[c] = payload[c]
      /\ payload' = [c \in Calls |-> payload'[c]]
      /\ registered' \in [Calls -> Seq(Indices)]
  <2>1. Append(registered[k], idx) \in Seq(Indices)
    BY <1>0
  <2>2. registered' = [registered EXCEPT ![k] = Append(registered[k], idx)]
    BY DEF RegisterInferOutput
  <2>3. /\ \A c \in Calls : c # k => payload'[c] = payload[c]
        /\ payload' = [c \in Calls |-> payload'[c]]
    <3>1. payload \in [Calls -> Payloads]
      BY DEF TypeOK
    <3>2. \A c \in Calls : c # k => payload'[c] = payload[c]
      BY <3>1 DEF RegisterInferOutput
    <3>3. payload' = [c \in Calls |-> payload'[c]]
      BY <3>1 DEF RegisterInferOutput
    <3> QED
      BY <3>2, <3>3
  <2> QED
    BY <2>1, <2>2, <2>3 DEF TypeOK
<1>2. /\ p.max_output_index \in 0 .. MaxIndex /\ p.max_output_index \in Int /\ idx \in Int
      /\ Max({p.max_output_index, idx}) =
            IF p.max_output_index >= idx THEN p.max_output_index ELSE idx
  <2>1. p.max_output_index \in 0 .. MaxIndex
    BY <1>0 DEF Payloads
  <2>2. p.max_output_index \in Int /\ idx \in Int
    BY <2>1, ExchangeAssumption DEF Indices
  <2> QED
    BY <2>1, <2>2, MaxOfTwo
<1>3. payload'[k] = [p EXCEPT !.output = Append(p.output, n),
                              !.output_buffer_map[idx] = n,
                              !.max_output_index = Max({p.max_output_index, idx})]
  BY DEF RegisterInferOutput, TypeOK
<1>4. /\ payload'[k].pc = "running"
      /\ payload'[k].input = p.input /\ payload'[k].inputs_memory = p.inputs_memory
      /\ payload'[k].asked = p.asked
      /\ payload'[k].output = Append(p.output, n)
      /\ payload'[k].output_buffer_map = [p.output_buffer_map EXCEPT ![idx] = n]
      /\ payload'[k].max_output_index =
            (IF p.max_output_index >= idx THEN p.max_output_index ELSE idx)
  BY <1>0, <1>2, <1>3 DEF Payloads
<1>5. payload'[k] \in Payloads
  <2>1. n \in 1 .. MaxOutputs /\ Append(p.output, n) \in Seq(1 .. MaxOutputs)
    BY <1>0, ExchangeAssumption DEF Payloads
  <2>2. [p.output_buffer_map EXCEPT ![idx] = n] \in [Indices -> 0 .. MaxOutputs]
    BY <1>0, <2>1 DEF Payloads
  <2>3. (IF p.max_output_index >= idx THEN p.max_output_index ELSE idx) \in 0 .. MaxIndex
    BY <1>2, ExchangeAssumption DEF Indices
  <2>4. payload'[k] = [p EXCEPT !.output = Append(p.output, n),
                                !.output_buffer_map = [p.output_buffer_map EXCEPT ![idx] = n],
                                !.max_output_index =
                                   IF p.max_output_index >= idx THEN p.max_output_index ELSE idx]
    BY <1>2, <1>3
  <2> QED
    BY <1>0, <2>1, <2>2, <2>3, <2>4 DEF Payloads
<1>6. TypeOK'
  <2>1. payload' \in [Calls -> Payloads]
    BY <1>1, <1>5 DEF TypeOK
  <2> QED
    BY <1>0, <1>1, <2>1 DEF TypeOK
<1>7. RequestInv' /\ ClientInv'
  BY <1>0, <1>1, <1>4 DEF RequestInv, ClientInv
<1>8. ASSUME NEW c \in Calls, c # k PROVE PayloadOf(c)' /\ AnswerOf(c)'
  <2>1. PayloadOf(c) /\ AnswerOf(c)
    BY DEF PayloadInv, AnswerInv
  <2> QED
    BY <1>0, <1>1, <1>8, <2>1 DEF PayloadOf, AnswerOf
<1>9. AnswerOf(k)'
  BY <1>0, <1>1 DEF AnswerInv, AnswerOf
<1>10. PayloadOf(k)'
  <2>1. /\ Len(p.output) = Len(registered[k]) /\ n = Len(registered[k]) + 1
        /\ \A i \in 1 .. Len(registered[k]) : p.output[i] = i
        /\ p.output \in Seq(1 .. MaxOutputs)
        /\ \A i \in Indices : IsLast(registered[k], i, p.output_buffer_map[i])
        /\ \A i \in 1 .. Len(registered[k]) : registered[k][i] <= p.max_output_index
        /\ ~(k > calls)
    <3>1. p.output \in Seq(1 .. MaxOutputs)
      BY <1>0 DEF Payloads
    <3> QED
      BY <1>0, <3>1 DEF PayloadOf, Described
  <2>2. /\ Len(registered'[k]) = n /\ DOMAIN registered'[k] = 1 .. n
        /\ registered'[k][n] = idx
        /\ \A i \in 1 .. Len(registered[k]) : registered'[k][i] = registered[k][i]
    BY <1>0, <1>1, <2>1
  <2>3. Described(payload'[k].output, registered'[k])
    BY <1>0, <1>4, <2>1, <2>2 DEF Described
  <2>4. ASSUME NEW i \in Indices
        PROVE  IsLast(registered'[k], i, payload'[k].output_buffer_map[i])
    <3>1. payload'[k].output_buffer_map[i] = IF i = idx THEN n ELSE p.output_buffer_map[i]
      BY <1>0, <1>4 DEF Payloads
    <3> QED
      BY <1>0, <1>1, <2>1, <3>1, LastAfterAppend
  <2>5. ASSUME NEW i \in 1 .. n PROVE registered'[k][i] <= payload'[k].max_output_index
    <3>1. CASE i = n
      BY <1>2, <1>4, <2>2, <3>1
    <3>2. CASE i # n
      <4>1. i \in 1 .. Len(registered[k])
        BY <1>0, <2>1, <3>2
      <4>2. registered[k][i] \in Int /\ registered[k][i] <= p.max_output_index
        BY <1>0, <2>1, <4>1, ExchangeAssumption DEF Indices
      <4> QED
        BY <1>2, <1>4, <2>2, <4>1, <4>2
    <3> QED
      BY <3>1, <3>2
  <2> QED
    BY <1>0, <1>4, <2>1, <2>2, <2>3, <2>4, <2>5 DEF PayloadOf
<1> QED
  BY <1>6, <1>7, <1>8, <1>9, <1>10 DEF PayloadInv, AnswerInv

\* The answer takes over what PayloadInv says of the payload.
LEMMA CompleteStep ==
  ASSUME XInv, NEW k \in Calls, NEW status, OnInferCompleted(k, status)
  PROVE  XInv'
<1> USE DEF XInv
<1> DEFINE p == payload[k]
<1>0. /\ UNCHANGED <<request, added, response, client, calls, cleared, gaveUp, registered>>
      /\ p \in Payloads /\ p.pc = "running" /\ registered[k] \in Seq(Indices)
      /\ PayloadOf(k) /\ AnswerOf(k)
  BY DEF OnInferCompleted, TypeOK, clientVars, PayloadInv, AnswerInv
<1>1. /\ payload' = [payload EXCEPT ![k] = [NoPayload EXCEPT !.pc = "completed"]]
      /\ answer' = [answer EXCEPT ![k] =
                     IF status = "Success"
                     THEN [code |-> "SUCCESS", meta_data |-> p.output,
                           raw_output |-> RawOutputs(p)]
                     ELSE [EmptyResponse EXCEPT !.code = "INTERNAL"]]
  BY DEF OnInferCompleted
<1>2. /\ payload'[k].pc = "completed" /\ payload'[k].input = payload'[k].inputs_memory
      /\ payload'[k].input = payload'[k].asked
      /\ payload'[k] \in Payloads
      /\ \A c \in Calls : c # k => payload'[c] = payload[c]
      /\ payload' \in [Calls -> Payloads]
  <2>1. [idx \in Indices |-> NoBytes] \in [Indices -> 0 .. MaxOutputs] /\ 0 \in 0 .. MaxIndex
    BY ExchangeAssumption DEF NoBytes
  <2>2. [NoPayload EXCEPT !.pc = "completed"] \in Payloads
    <3>1. [NoPayload EXCEPT !.pc = "completed"] =
             [pc |-> "completed", asked |-> <<>>, input |-> <<>>, inputs_memory |-> <<>>,
              output |-> <<>>, output_buffer_map |-> [idx \in Indices |-> NoBytes], max_output_index |-> 0]
      BY DEF NoPayload
    <3>2. [pc |-> "completed", asked |-> <<>>, input |-> <<>>, inputs_memory |-> <<>>,
           output |-> <<>>, output_buffer_map |-> [idx \in Indices |-> NoBytes], max_output_index |-> 0]
             \in Payloads
      BY <2>1 DEF Payloads
    <3> QED
      BY <3>1, <3>2, Zenon
  <2>3. [NoPayload EXCEPT !.pc = "completed"].pc = "completed"
           /\ [NoPayload EXCEPT !.pc = "completed"].input =
                 [NoPayload EXCEPT !.pc = "completed"].inputs_memory
           /\ [NoPayload EXCEPT !.pc = "completed"].input =
                 [NoPayload EXCEPT !.pc = "completed"].asked
    BY DEF NoPayload
  <2> QED
    BY <1>1, <2>2, <2>3 DEF TypeOK
<1>3. /\ RawOutputs(p) \in Seq(0 .. MaxOutputs)
      /\ Len(RawOutputs(p)) = p.max_output_index + 1
      /\ \A idx \in 0 .. p.max_output_index :
            RawOutputs(p)[idx + 1] = p.output_buffer_map[idx]
  <2>1. p.max_output_index \in 0 .. MaxIndex /\ MaxIndex \in Nat
           /\ p.output_buffer_map \in [Indices -> 0 .. MaxOutputs]
    BY <1>0, ExchangeAssumption DEF Payloads
  <2>2. \A i \in 1 .. p.max_output_index + 1 : i - 1 \in Indices
    BY <2>1 DEF Indices
  <2>3. RawOutputs(p) \in [1 .. p.max_output_index + 1 -> 0 .. MaxOutputs]
    BY <2>1, <2>2 DEF RawOutputs, GetOutputBuffer
  <2>4. ASSUME NEW idx \in 0 .. p.max_output_index
        PROVE  RawOutputs(p)[idx + 1] = p.output_buffer_map[idx]
    <3>1. idx + 1 \in 1 .. p.max_output_index + 1 /\ idx + 1 - 1 = idx
      BY <2>1
    <3> QED
      BY <3>1 DEF RawOutputs, GetOutputBuffer
  <2>5. p.max_output_index + 1 \in Nat
    BY <2>1
  <2>6. RawOutputs(p) \in Seq(0 .. MaxOutputs) /\ Len(RawOutputs(p)) = p.max_output_index + 1
    BY <2>3, <2>5, FunctionIsSeq
  <2> QED
    BY <2>4, <2>6
<1>4. answer'[k] \in Responses /\ answer' \in [Calls -> Responses]
         /\ \A c \in Calls : c # k => answer'[c] = answer[c]
  <2>1. [code |-> "SUCCESS", meta_data |-> p.output, raw_output |-> RawOutputs(p)] \in Responses
    BY <1>0, <1>3 DEF Responses, Payloads
  <2>2. [EmptyResponse EXCEPT !.code = "INTERNAL"] \in Responses
    <3>1. [EmptyResponse EXCEPT !.code = "INTERNAL"] =
             [code |-> "INTERNAL", meta_data |-> <<>>, raw_output |-> <<>>]
      BY DEF EmptyResponse
    <3>2. [code |-> "INTERNAL", meta_data |-> <<>>, raw_output |-> <<>>] \in Responses
      BY DEF Responses
    <3> QED
      BY <3>1, <3>2, Zenon
  <2> QED
    BY <1>1, <2>1, <2>2 DEF TypeOK
<1>5. TypeOK'
  BY <1>0, <1>2, <1>4 DEF TypeOK
<1>6. RequestInv' /\ ClientInv'
  BY <1>0, <1>2 DEF RequestInv, ClientInv
<1>7. ASSUME NEW c \in Calls, c # k PROVE PayloadOf(c)' /\ AnswerOf(c)'
  <2>1. PayloadOf(c) /\ AnswerOf(c)
    BY DEF PayloadInv, AnswerInv
  <2> QED
    BY <1>0, <1>2, <1>4, <1>7, <2>1 DEF PayloadOf, AnswerOf
<1>8. PayloadOf(k)'
  BY <1>0, <1>2 DEF PayloadOf
<1>9. AnswerOf(k)'
  <2>1. CASE status = "Success"
    <3>1. /\ answer'[k].code = "SUCCESS" /\ answer'[k].meta_data = p.output
          /\ answer'[k].raw_output = RawOutputs(p)
      BY <1>1, <2>1 DEF TypeOK
    <3>2. /\ Described(p.output, registered[k])
          /\ \A idx \in Indices : IsLast(registered[k], idx, p.output_buffer_map[idx])
          /\ \A n \in DOMAIN registered[k] : registered[k][n] <= p.max_output_index
      BY <1>0 DEF PayloadOf
    <3>3. p.max_output_index \in 0 .. MaxIndex /\ MaxIndex \in Nat
      BY <1>0, ExchangeAssumption DEF Payloads
    <3>4. Len(answer'[k].raw_output) \in 1 .. MaxIndex + 1
      BY <1>3, <3>1, <3>3
    <3>5. ASSUME NEW idx \in 0 .. Len(answer'[k].raw_output) - 1
          PROVE  IsLast(registered'[k], idx, answer'[k].raw_output[idx + 1])
      <4>1. idx \in 0 .. p.max_output_index /\ idx \in Indices
        BY <1>3, <3>1, <3>3 DEF Indices
      <4> QED
        BY <1>0, <1>3, <3>1, <3>2, <4>1
    <3>6. ASSUME NEW n \in DOMAIN registered'[k]
          PROVE  registered'[k][n] < Len(answer'[k].raw_output)
      <4>1. registered[k][n] \in Int /\ registered[k][n] <= p.max_output_index
        BY <1>0, <3>2, ExchangeAssumption DEF Indices
      <4> QED
        BY <1>0, <1>3, <3>1, <3>3, <4>1
    <3> QED
      BY <1>0, <1>2, <3>1, <3>2, <3>4, <3>5, <3>6 DEF AnswerOf
  <2>2. CASE status # "Success"
    <3>1. answer'[k].code = "INTERNAL" /\ answer'[k].meta_data = <<>>
      BY <1>1, <2>2 DEF TypeOK, EmptyResponse
    <3> QED
      BY <3>1 DEF AnswerOf
  <2> QED
    BY <2>1, <2>2
<1> QED
  BY <1>5, <1>6, <1>7, <1>8, <1>9 DEF PayloadInv, AnswerInv

-----------------------------------------------------------------------------

\* XInv holds in every reachable state.
THEOREM Invariance == Spec => []XInv
<1>1. Init => XInv
  <2> SUFFICES ASSUME Init PROVE XInv
    OBVIOUS
  <2>1. NoPayload \in Payloads
    <3>1. [idx \in Indices |-> NoBytes] \in [Indices -> 0 .. MaxOutputs] /\ 0 \in 0 .. MaxIndex
      BY ExchangeAssumption DEF NoBytes
    <3> QED
      BY <3>1 DEF NoPayload, Payloads
  <2>2. EmptyResponse \in Responses
    BY DEF EmptyResponse, Responses
  <2>3. TypeOK
    <3>1. /\ request \in [input : Seq(Tensors), raw_input : Seq(Tensors)]
          /\ Len(request.input) <= MaxInputs
      BY ExchangeAssumption DEF Init, EmptyRequest
    <3>2. response \in [of : 0 .. MaxCalls, is : Responses]
      BY <2>2, ExchangeAssumption DEF Init
    <3> QED
      BY <2>1, <2>2, <3>1, <3>2, ExchangeAssumption DEF Init, TypeOK
  <2>4. RequestInv
    BY DEF Init, RequestInv, EmptyRequest, NoPayload
  <2>5. ASSUME NEW k \in Calls PROVE PayloadOf(k)
    <3>1. /\ payload[k].pc = "none" /\ payload[k].output = <<>> /\ registered[k] = <<>>
          /\ payload[k].output_buffer_map = [idx \in Indices |-> NoBytes]
      BY DEF Init, NoPayload
    <3> QED
      BY <3>1 DEF PayloadOf, Described, IsLast
  <2>6. ASSUME NEW k \in Calls PROVE AnswerOf(k)
    BY DEF Init, AnswerOf, EmptyResponse
  <2>7. ClientInv
    BY DEF Init, ClientInv
  <2> QED
    BY <2>3, <2>4, <2>5, <2>6, <2>7 DEF XInv, PayloadInv, AnswerInv
<1>2. XInv /\ [Next]_vars => XInv'
  <2> SUFFICES ASSUME XInv, [Next]_vars PROVE XInv'
    OBVIOUS
  <2>1. CASE Client
    BY <2>1, RequestSteps, InferStep, ReturnSteps DEF Client
  <2>2. ASSUME NEW k \in Calls, Server(k) PROVE XInv'
    BY <2>2, ConstructStep, RegisterStep, CompleteStep DEF Server
  <2>3. CASE UNCHANGED vars
    BY <2>3 DEF vars, clientVars, XInv, TypeOK, RequestInv, PayloadInv, PayloadOf, AnswerInv,
       AnswerOf, ClientInv
  <2> QED
    BY <2>1, <2>2, <2>3 DEF Next
<1> QED
  BY <1>1, <1>2, PTL DEF Spec

\* Type correctness.
THEOREM TypeCorrect == Spec => []TypeOK
BY Invariance, PTL DEF XInv

\* A call carries what was added and the backend finds it, index by index.
THEOREM Inputs == Spec => []CallCarriesWhatWasAdded
<1>1. XInv => CallCarriesWhatWasAdded
  BY DEF XInv, RequestInv, CallCarriesWhatWasAdded, GetInputMemory, TypeOK, Payloads
<1> QED
  BY <1>1, Invariance, PTL

\* The raw outputs are the last registered under each index, and none is lost.
THEOREM LastRegistration == Spec => []LastRegistrationAnswered
<1>1. XInv => LastRegistrationAnswered
  <2> SUFFICES ASSUME XInv, NEW k \in Calls, answer[k].code = "SUCCESS",
                      NEW idx \in 0 .. MaxIndex
               PROVE  IF idx < Len(answer[k].raw_output)
                      THEN answer[k].raw_output[idx + 1] = LastRegistered(k, idx)
                      ELSE LastRegistered(k, idx) = NoBytes
    BY DEF LastRegistrationAnswered
  <2>1. /\ AnswerOf(k) /\ registered[k] \in Seq(Indices)
        /\ Len(answer[k].raw_output) \in Nat
    BY DEF XInv, AnswerInv, TypeOK, Responses
  <2>2. CASE idx < Len(answer[k].raw_output)
    <3>1. idx \in 0 .. Len(answer[k].raw_output) - 1
      BY <2>1, <2>2, ExchangeAssumption
    <3>2. IsLast(registered[k], idx, answer[k].raw_output[idx + 1])
      BY <2>1, <3>1 DEF AnswerOf
    <3> QED
      BY <2>1, <2>2, <3>2, LastIs
  <2>3. CASE ~(idx < Len(answer[k].raw_output))
    <3>1. \A n \in DOMAIN registered[k] : registered[k][n] # idx
      BY <2>1, <2>3 DEF AnswerOf
    <3>2. IsLast(registered[k], idx, NoBytes)
      BY <3>1 DEF IsLast
    <3> QED
      BY <2>1, <2>3, <3>2, LastIs
  <2> QED
    BY <2>2, <2>3
<1> QED
  BY <1>1, Invariance, PTL

\* Outputs with indices of their own can be read, all of them and no others,
\* below 2^31.
THEOREM ReadBack == Spec => []DescribedOutputsReadable
<1>1. XInv => DescribedOutputsReadable
  <2> SUFFICES ASSUME XInv, NEW k \in Calls, NEW i \in 0 .. 2 * Two31 - 1,
                      answer[k].code = "SUCCESS", OwnIndices(registered[k])
               PROVE  GetInferOutput(answer[k], i).result =
                        IF i < Len(registered[k]) THEN "ok"
                        ELSE IF i < Two31 THEN "out of bound" ELSE "undefined"
    BY DEF DescribedOutputsReadable
  <2> DEFINE a == answer[k]
             s == registered[k]
  <2>1. /\ AnswerOf(k) /\ s \in Seq(Indices) /\ a.meta_data \in Seq(1 .. MaxOutputs)
        /\ a.raw_output \in Seq(0 .. MaxOutputs) /\ i \in Int /\ i >= 0
    BY ExchangeAssumption DEF XInv, AnswerInv, TypeOK, Responses
  <2>2. /\ Len(a.meta_data) = Len(s)
        /\ \A n \in DOMAIN s : s[n] < Len(a.raw_output)
        /\ Len(a.raw_output) \in 1 .. MaxIndex + 1
    BY <2>1 DEF AnswerOf, Described
  <2>3. Len(s) <= Len(a.raw_output)
    BY <2>1, <2>2, DifferentIndices
  <2>4. /\ Len(s) \in Nat /\ Len(a.raw_output) \in Nat /\ Two31 \in Nat
        /\ Len(s) < Two31 /\ Len(a.raw_output) < Two31
    BY <2>1, <2>2, <2>3, ExchangeAssumption
  <2>5. CASE i < Len(s)
    <3>1. ToSigned(i) = i
      BY <2>4, <2>5 DEF ToSigned
    <3>2. GetInferOutput(a, i).result = "ok"
      BY <2>1, <2>2, <2>3, <2>4, <2>5, <3>1 DEF GetInferOutput
    <3> QED
      BY <2>1, <2>4, <2>5, <3>2
  <2>6. CASE ~(i < Len(s)) /\ i < Two31
    <3>1. ToSigned(i) = i
      BY <2>4, <2>6 DEF ToSigned
    <3>2. GetInferOutput(a, i).result = "out of bound"
      BY <2>1, <2>2, <2>4, <2>6, <3>1 DEF GetInferOutput, OutOfBound
    <3> QED
      BY <2>1, <2>4, <2>6, <3>2
  <2>7. CASE ~(i < Two31)
    <3>1. ToSigned(i) < 0 /\ ToSigned(i) \in Int
      BY <2>1, <2>4, <2>7 DEF ToSigned
    <3>2. GetInferOutput(a, i).result = "undefined"
      BY <2>1, <2>2, <2>4, <3>1 DEF GetInferOutput, OutOfBound
    <3> QED
      BY <2>1, <2>4, <2>7, <3>2
  <2> QED
    BY <2>1, <2>4, <2>5, <2>6, <2>7
<1> QED
  BY <1>1, Invariance, PTL

\* A late answer never shows, and neither does anything of a failed call.
THEOREM LastAnswer == Spec => []ReadsLastAnswer
<1>1. XInv => ReadsLastAnswer
  <2> SUFFICES ASSUME XInv PROVE ReadsLastAnswer
    OBVIOUS
  <2>1. ASSUME client = "failed", NEW i \in 0 .. Two31 - 1
        PROVE  GetInferOutput(response.is, i).result = "out of bound"
    <3>1. response.is.meta_data = <<>>
      BY <2>1 DEF XInv, ClientInv
    <3>2. ToSigned(i) = i /\ i >= 0
      BY ExchangeAssumption DEF ToSigned
    <3> QED
      BY <3>1, <3>2 DEF GetInferOutput, OutOfBound
  <2> QED
    BY <2>1 DEF XInv, ClientInv, ReadsLastAnswer
<1> QED
  BY <1>1, Invariance, PTL
=============================================================================
