---------------------------- MODULE InferExchange ----------------------------
(***************************************************************************)
(* One inference from end to end: a client's InferRequestContext collects  *)
(* inputs, calls Infer and reads outputs; the server's                     *)
(* GrpcInferRequestContext makes an InferencePayload of the request, a     *)
(* backend registers its outputs with it in any order and under any index, *)
(* and the response is put together when the payload is completed.  The    *)
(* client uses its context again and again, with or without Clear, and     *)
(* gives up on calls that take too long while the server goes on.          *)
(*                                                                         *)
(* Of an input and an output only the description (name and dimensions)    *)
(* and the bytes are told apart, both by the same value, so that they can  *)
(* be compared.  An output is the number of its registration; NoBytes is   *)
(* an empty string.  What the server never reads is left out of a request: *)
(* the name of the outputs wanted, and the tensors.                        *)
(***************************************************************************)
EXTENDS Integers, Sequences, FiniteSetsExt

CONSTANTS
    Tensors,        \* what a client may put in
    MaxInputs,      \* bound: the inputs of a request
    MaxOutputs,     \* bound: the outputs a backend registers for a payload
    MaxIndex,       \* bound: the highest index it registers one under
    MaxCalls,       \* bound: the calls of Infer
    Two31,          \* 2^31: where a uint32_t cast to int32_t turns negative
    Null            \* nullptr

ASSUME ExchangeAssumption ==
    /\ MaxInputs \in Nat /\ MaxOutputs \in Nat /\ MaxIndex \in Nat /\ MaxCalls \in Nat
    /\ Two31 \in Nat /\ Two31 > MaxOutputs /\ Two31 > MaxIndex + 1
    /\ Null \notin Tensors

Calls   == 1 .. MaxCalls
Indices == -1 .. MaxIndex
NoBytes == 0
UpTo(S, n) == UNION {[1 .. k -> S] : k \in 0 .. n}

VARIABLES
    request,    \* infer_request_: the inputs described and their bytes
    added,      \* history: the inputs of the calls since Clear that returned true
    response,   \* infer_response_, and history: the call it answers
    client,     \* how the last call of Infer ended, or that it has not
    calls,      \* the calls of Infer so far
    cleared,    \* history: how many of them came before the last Clear
    gaveUp,     \* history: those that the client did not wait for
    payload,    \* of every call: its InferencePayload
    answer,     \* of every call: its InferResponse in the server
    registered  \* history: of every call the indices registered, in order

clientVars == <<request, added, response, client, calls, cleared, gaveUp>>
vars == <<clientVars, payload, answer, registered>>

EmptyRequest == [input |-> <<>>, raw_input |-> <<>>]
EmptyResponse == [code |-> "none", meta_data |-> <<>>, raw_output |-> <<>>]

\* asked is history: the inputs added when the call went out.
NoPayload ==
    [pc |-> "none", asked |-> <<>>, input |-> <<>>, inputs_memory |-> <<>>, output |-> <<>>,
     output_buffer_map |-> [idx \in Indices |-> NoBytes], max_output_index |-> 0]

-----------------------------------------------------------------------------

Init ==
    /\ request = EmptyRequest /\ added = <<>>
    /\ response = [of |-> 0, is |-> EmptyResponse]
    /\ client = "idle"
    /\ calls = 0 /\ cleared = 0 /\ gaveUp = {}
    /\ payload = [k \in Calls |-> NoPayload]
    /\ answer = [k \in Calls |-> EmptyResponse]
    /\ registered = [k \in Calls |-> <<>>]

(***************************************************************************)
(* InferRequestContext, the client.                                        *)
(***************************************************************************)
WithInput(r, t) ==
    [input |-> Append(r.input, t), raw_input |-> Append(r.raw_input, t)]

AddInferInput(t) ==
    /\ client # "waiting"
    /\ Len(request.input) < MaxInputs
    /\ request' = WithInput(request, t)
    /\ added' = Append(added, t)
    /\ UNCHANGED <<response, client, calls, cleared, gaveUp, payload, answer, registered>>

\* Slip: the numbers are compared in the loop, when the first inputs are in.
AddInferInputs_Prefix(inputs, shapes, names) ==
    LET n  == Min({Len(inputs), shapes} \cup ({names} \ {Null}))
        ok == n = Len(inputs)
    IN  /\ client # "waiting"
        /\ Len(request.raw_input) + Len(inputs) <= MaxInputs
        /\ request' = [input |-> request.input \o SubSeq(inputs, 1, n),
                       raw_input |-> request.raw_input \o SubSeq(inputs, 1, n)]
        /\ added' = IF ok THEN added \o inputs ELSE added
        /\ UNCHANGED <<response, client, calls, cleared, gaveUp, payload, answer, registered>>

\* Several at once, with so many shapes and so many names, or nullptr for the
\* names; with the wrong number of either the request stays as it is.
AddInferInputs(inputs, shapes, names) ==
    LET ok == Len(inputs) = shapes /\ names \in {Null, Len(inputs)}
    IN  /\ client # "waiting"
        /\ Len(request.raw_input) + Len(inputs) <= MaxInputs
        /\ request' = IF ok THEN [input |-> request.input \o inputs,
                                  raw_input |-> request.raw_input \o inputs]
                      ELSE request
        /\ added' = IF ok THEN added \o inputs ELSE added
        /\ UNCHANGED <<response, client, calls, cleared, gaveUp, payload, answer, registered>>

\* Slip: only the request.
Clear_Request ==
    /\ client # "waiting"
    /\ request' = EmptyRequest /\ added' = <<>>
    /\ cleared' = calls
    /\ UNCHANGED <<response, client, calls, gaveUp, payload, answer, registered>>

Clear ==
    /\ client # "waiting"
    /\ request' = EmptyRequest /\ added' = <<>>
    /\ response' = [of |-> 0, is |-> EmptyResponse]
    /\ cleared' = calls
    /\ UNCHANGED <<client, calls, gaveUp, payload, answer, registered>>

\* The call goes out, with all that was added since Clear.  It may be lost.
Infer ==
    /\ client # "waiting"
    /\ calls < MaxCalls
    /\ calls' = calls + 1
    /\ client' = "waiting"
    /\ \/ payload' = [payload EXCEPT ![calls + 1].pc = "sent",
                                     ![calls + 1].asked = added,
                                     ![calls + 1].input = request.input,
                                     ![calls + 1].inputs_memory = request.raw_input]
       \/ UNCHANGED payload
    /\ UNCHANGED <<request, added, response, cleared, gaveUp, answer, registered>>

\* An answer replaces what was there.
InferReturn ==
    /\ client = "waiting"
    /\ payload[calls].pc = "completed"
    /\ response' = [of |-> calls, is |-> answer[calls]]
    /\ client' = IF answer[calls].code = "SUCCESS" THEN "succeeded" ELSE "failed"
    /\ UNCHANGED <<request, added, calls, cleared, gaveUp, payload, answer, registered>>

\* "Infer timeout": gRPC reports an error and has not touched the response.
InferTimeout ==
    /\ client = "waiting"
    /\ client' = "timeout"
    /\ gaveUp' = gaveUp \cup {calls}
    /\ UNCHANGED <<request, added, response, calls, cleared, payload, answer, registered>>

\* static_cast<int32_t> of a uint32_t.
ToSigned(i) == IF i < Two31 THEN i ELSE i - 2 * Two31

OutOfBound(dims) == [result |-> "out of bound", dims |-> dims, data |-> NoBytes]

\* Slip: the number of outputs is taken for the last index.
GetInferOutput_Last(r, index) ==
    IF ToSigned(index) + 1 >= Len(r.meta_data) THEN OutOfBound(NoBytes)
    ELSE IF ToSigned(index) < 0 THEN [OutOfBound(NoBytes) EXCEPT !.result = "undefined"]
    ELSE IF index >= Len(r.raw_output) THEN OutOfBound(r.meta_data[index + 1])
    ELSE [result |-> "ok", dims |-> r.meta_data[index + 1], data |-> r.raw_output[index + 1]]

\* index is a uint32_t, and the first comparison is one of its cast: a
\* negative one passes, and output(index) reads outside of the list.  dims is
\* what is appended to output_dims, also when the call fails then.
GetInferOutput(r, index) ==
    IF ToSigned(index) >= Len(r.meta_data) THEN OutOfBound(NoBytes)
    ELSE IF ToSigned(index) < 0 THEN [OutOfBound(NoBytes) EXCEPT !.result = "undefined"]
    ELSE IF index >= Len(r.raw_output) THEN OutOfBound(r.meta_data[index + 1])
    ELSE [result |-> "ok", dims |-> r.meta_data[index + 1], data |-> r.raw_output[index + 1]]

(***************************************************************************)
(* InferencePayload and GrpcInferRequestContext, in the server.            *)
(***************************************************************************)
ConstructPayload(k) ==
    /\ payload[k].pc = "sent"
    /\ payload' = [payload EXCEPT ![k].pc = "running"]
    /\ UNCHANGED <<clientVars, answer, registered>>

GetInputMemory(k, idx) ==
    IF idx < 0 \/ idx >= Len(payload[k].inputs_memory) THEN Null
    ELSE payload[k].inputs_memory[idx + 1]

\* Slip: the last index instead of the highest.
RegisterInferOutput_Last(k, idx) ==
    LET p == payload[k] IN
    /\ p.pc = "running"
    /\ Len(p.output) < MaxOutputs
    /\ payload' = [payload EXCEPT ![k].output = Append(p.output, Len(p.output) + 1),
                                  ![k].output_buffer_map[idx] = Len(p.output) + 1,
                                  ![k].max_output_index = idx]
    /\ registered' = [registered EXCEPT ![k] = Append(@, idx)]
    /\ UNCHANGED <<clientVars, answer>>

\* The key of a negative index is one that nobody asks for.
RegisterInferOutput(k, idx) ==
    LET p == payload[k] IN
    /\ p.pc = "running"
    /\ Len(p.output) < MaxOutputs
    /\ payload' = [payload EXCEPT ![k].output = Append(p.output, Len(p.output) + 1),
                                  ![k].output_buffer_map[idx] = Len(p.output) + 1,
                                  ![k].max_output_index = Max({p.max_output_index, idx})]
    /\ registered' = [registered EXCEPT ![k] = Append(@, idx)]
    /\ UNCHANGED <<clientVars, answer>>

\* An index beyond the highest would throw; the response asks for none.
GetOutputBuffer(p, idx) == p.output_buffer_map[idx]

\* Slip: < for <= in the loop.
RawOutputs_Less(p) == [i \in 1 .. p.max_output_index |-> GetOutputBuffer(p, i - 1)]

RawOutputs(p) == [i \in 1 .. p.max_output_index + 1 |-> GetOutputBuffer(p, i - 1)]

\* The response takes the outputs over; the payload is done with.
OnInferCompleted(k, status) ==
    /\ payload[k].pc = "running"
    /\ answer' = [answer EXCEPT ![k] =
                     IF status = "Success"
                     THEN [code |-> "SUCCESS", meta_data |-> payload[k].output,
                           raw_output |-> RawOutputs(payload[k])]
                     ELSE [EmptyResponse EXCEPT !.code = "INTERNAL"]]
    /\ payload' = [payload EXCEPT ![k] = [NoPayload EXCEPT !.pc = "completed"]]
    /\ UNCHANGED <<clientVars, registered>>

-----------------------------------------------------------------------------

Client ==
    \/ \E t \in Tensors : AddInferInput(t)
    \/ \E inputs \in UpTo(Tensors, MaxInputs), shapes \in 0 .. MaxInputs,
          names \in {Null} \cup 0 .. MaxInputs : AddInferInputs(inputs, shapes, names)
    \/ Clear \/ Infer \/ InferReturn \/ InferTimeout

Server(k) ==
    \/ ConstructPayload(k)
    \/ \E idx \in Indices : RegisterInferOutput(k, idx)
    \/ \E status \in {"Success", "Failure"} : OnInferCompleted(k, status)

Next == Client \/ \E k \in Calls : Server(k)

Spec == Init /\ [][Next]_vars

-----------------------------------------------------------------------------

Responses ==
    [code : {"none", "SUCCESS", "INTERNAL"}, meta_data : Seq(1 .. MaxOutputs),
     raw_output : Seq(0 .. MaxOutputs)]

Payloads ==
    [pc : {"none", "sent", "running", "completed"},
     asked : Seq(Tensors), input : Seq(Tensors), inputs_memory : Seq(Tensors),
     output : Seq(1 .. MaxOutputs),
     output_buffer_map : [Indices -> 0 .. MaxOutputs], max_output_index : 0 .. MaxIndex]

TypeOK ==
    /\ request \in [input : Seq(Tensors), raw_input : Seq(Tensors)]
    /\ Len(request.input) <= MaxInputs
    /\ added \in Seq(Tensors)
    /\ response \in [of : 0 .. MaxCalls, is : Responses]
    /\ client \in {"idle", "waiting", "succeeded", "failed", "timeout"}
    /\ calls \in 0 .. MaxCalls
    /\ cleared \in 0 .. calls
    /\ gaveUp \subseteq 1 .. calls
    /\ payload \in [Calls -> Payloads]
    /\ answer \in [Calls -> Responses]
    /\ registered \in [Calls -> Seq(Indices)]

(***************************************************************************)
(* A call carries the inputs that the client was told are in, in their     *)
(* order and no others, and the backend finds the bytes of each under its  *)
(* index and nothing outside: over calls of AddInferInputs that were       *)
(* refused, repeated calls of Infer, calls given up on and Clear.          *)
(***************************************************************************)
CallCarriesWhatWasAdded ==
    \A k \in Calls, idx \in -1 .. MaxInputs + 1 :
        LET asked == payload[k].asked
        IN  payload[k].pc = "running" =>
                /\ payload[k].input = asked
                /\ GetInputMemory(k, idx) =
                      IF idx \in 0 .. Len(asked) - 1 THEN asked[idx + 1] ELSE Null

(***************************************************************************)
(* Whatever the order of the registrations, the raw outputs run from index *)
(* 0 to the highest one, each the last registered there, and no            *)
(* registration under an index that is not negative is lost but to a later *)
(* one.                                                                    *)
(***************************************************************************)
LastRegistered(k, idx) == Max({n \in DOMAIN registered[k] : registered[k][n] = idx} \cup {NoBytes})

LastRegistrationAnswered ==
    \A k \in Calls : answer[k].code = "SUCCESS" =>
        \A idx \in 0 .. MaxIndex :
            IF idx < Len(answer[k].raw_output)
            THEN answer[k].raw_output[idx + 1] = LastRegistered(k, idx)
            ELSE LastRegistered(k, idx) = NoBytes

(***************************************************************************)
(* If the backend gave every output an index of its own, none negative,    *)
(* then in whatever order it registered them the client can read as many   *)
(* outputs as the response describes, and every index after them is        *)
(* refused, up to 2^31: from there on the cast to int32_t lets the index   *)
(* through.                                                                *)
(***************************************************************************)
OwnIndices(s) == \A m, n \in DOMAIN s : s[n] >= 0 /\ (s[m] = s[n] => m = n)

DescribedOutputsReadable ==
    \A k \in Calls, i \in 0 .. 2 * Two31 - 1 :
        answer[k].code = "SUCCESS" /\ OwnIndices(registered[k]) =>
            GetInferOutput(answer[k], i).result =
                IF i < Len(registered[k]) THEN "ok"
                ELSE IF i < Two31 THEN "out of bound" ELSE "undefined"

(***************************************************************************)
(* "The raw output tensor data in the order specified in 'meta_data'"      *)
(* (grpc_service.proto): the bytes in every place are those of the output  *)
(* described there.  Asked only of a backend that registers an output      *)
(* under each of the indices from 0, once, in an order of its own: the     *)
(* descriptions go by that order and the bytes by the indices.             *)
(***************************************************************************)
OutputsInDescribedOrder ==
    \A k \in Calls :
        LET s == registered[k]
        IN  /\ answer[k].code = "SUCCESS"
            /\ OwnIndices(s) /\ \A n \in DOMAIN s : s[n] < Len(s)
            => \A i \in DOMAIN answer[k].meta_data :
                  /\ i <= Len(answer[k].raw_output)
                  /\ answer[k].raw_output[i] = answer[k].meta_data[i]

(***************************************************************************)
(* What a client reads is the answer to its last call, or, when it gave up *)
(* on that, to the last it did not give up on, unless it called Clear      *)
(* since: a late answer to another call never shows, and after a failed    *)
(* call that was answered there is nothing to read.                        *)
(***************************************************************************)
ReadsLastAnswer ==
    /\ response.of # 0 =>
          /\ response.of \in (cleared + 1 .. calls) \ gaveUp
          /\ response.of + 1 .. calls \subseteq
                gaveUp \cup (IF client = "waiting" THEN {calls} ELSE {})
    /\ client = "failed" => \A i \in 0 .. Two31 - 1 :
          GetInferOutput(response.is, i).result = "out of bound"
=============================================================================
