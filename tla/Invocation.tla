----------------------------- MODULE Invocation -----------------------------
(***************************************************************************)
(* One remote call from RPCClient::remoteCall through the registry of      *)
(* RPCFramework/includes/RPCFramework.hpp and back: what the packets hold, *)
(* what the procedure is called with and what the caller is told.  How     *)
(* packets travel and who handles them is the subject of Framing and       *)
(* RPCServer.                                                              *)
(*                                                                         *)
(* A name stands for one procedure, whose types the caller knows; void is  *)
(* an int result that is always 0.  The procedures are registered before   *)
(* the server starts, and one call is made: nothing of it remains for the  *)
(* next.                                                                   *)
(***************************************************************************)
EXTENDS Codec

CONSTANTS Names,      \* the names the caller uses
          Args,       \* the types of the arguments of each
          Ret,        \* the type of the result of each
          ArgValues,  \* the arguments each may be called with
          RetValues,  \* the results each may return
          Residues,   \* what the int of a packet without result may hold
          None        \* no call, no execution, no outcome

\* An execution of a procedure: the arguments it was called with, the state of the
\* stream they were read from, and how it ended.
Executions(name) ==
    [name : {name}, args : CodecOf(Args[name]).vals, state : {"good", "fail", "throw"},
     end : {"returns", "throws"}, ret : RetValues[name] \cup {None}]

\* The texts of results are in memory: none is as long as Huge.
ASSUME InvocationAssumption ==
    /\ Names \subseteq Text
    /\ Args \in [Names -> Types] /\ Ret \in [Names -> Types]
    /\ DOMAIN ArgValues = Names /\ DOMAIN RetValues = Names
    /\ \A n \in Names : /\ ArgValues[n] \subseteq CodecOf(Args[n]).vals
                        /\ RetValues[n] \subseteq CodecOf(Ret[n]).vals
                        /\ \A r \in RetValues[n] : Len(CodecOf(Ret[n]).write[r]) < Huge
                        /\ None \notin Executions(n)
    /\ Residues \subseteq Nat /\ \A r \in Residues : Len(WriteNumber(r)) < Huge

SUCCESS == 0
UNKNOWN == 1
NO_SUCH_PROCEDURE == 2

VARIABLES procedures, \* the names in the registry
          step,       \* "register", "idle", "sent", "answered" or "done"
          call,       \* the call made: name and arguments
          request,    \* the text the client sent
          executed,   \* the procedure executed for it, its arguments and its end
          response,   \* the text the server sent
          outcome     \* how remoteCall ended

vars == <<procedures, step, call, request, executed, response, outcome>>

Outcome(how, what) == [how |-> how, what |-> what]

TypeOK ==
    /\ procedures \subseteq Names
    /\ step \in {"register", "idle", "sent", "answered", "done"}
    /\ call # None => call.args \in ArgValues[call.name]
    /\ executed # None => executed.name \in procedures /\ executed \in Executions(executed.name)
    /\ outcome # None =>
         /\ outcome.how \in {"returns", "error", "throws", "undefined"}
         /\ outcome.how = "error" => outcome.what \in {UNKNOWN, NO_SUCH_PROCEDURE}

Init ==
    /\ procedures = {}
    /\ step = "register"
    /\ call = None
    /\ request = <<>>
    /\ executed = None
    /\ response = <<>>
    /\ outcome = None

-----------------------------------------------------------------------------

Register(name) ==
    /\ step = "register"
    /\ procedures' = procedures \cup {name}
    /\ UNCHANGED <<step, call, request, executed, response, outcome>>

Start ==
    /\ step = "register"
    /\ step' = "idle"
    /\ UNCHANGED <<procedures, call, request, executed, response, outcome>>

\* remoteCall packs the name and the arguments.
Call(name, args) ==
    /\ step = "idle"
    /\ step' = "sent"
    /\ call' = [name |-> name, args |-> args]
    /\ request' = WriteCall(name, Args[name], args)
    /\ UNCHANGED <<procedures, executed, response, outcome>>

\* A packet without a result: its int is never initialised.
ErrorPacket(code, residue) == WriteReturn(code, IntType, residue)

\* handleRequest does not find the name it reads.
NoSuchProcedure ==
    /\ step = "sent"
    /\ ReadName(request) \notin procedures
    /\ \E residue \in Residues : response' = ErrorPacket(NO_SUCH_PROCEDURE, residue)
    /\ step' = "answered"
    /\ UNCHANGED <<procedures, call, request, executed, outcome>>

\* Mutation: the packet says that the call has succeeded.
ThrowUnnoticed ==
    LET name == ReadName(request)
        args == ReadArgs(Args[name], request)
    IN
    /\ step = "sent" /\ name \in procedures
    /\ args.s.state # "endless"
    /\ executed' = [name |-> name, args |-> args.val, state |-> args.s.state,
                    end |-> "throws", ret |-> None]
    /\ \E residue \in Residues : response' = ErrorPacket(SUCCESS, residue)
    /\ step' = "answered"
    /\ UNCHANGED <<procedures, call, request, outcome>>

\* The procedure, or the reading of its arguments, throws.  Reading that does not
\* end is no step, and then the call gets no answer.
Throw ==
    LET name == ReadName(request)
        args == ReadArgs(Args[name], request)
    IN
    /\ step = "sent" /\ name \in procedures
    /\ args.s.state # "endless"
    /\ executed' = [name |-> name, args |-> args.val, state |-> args.s.state,
                    end |-> "throws", ret |-> None]
    /\ \E residue \in Residues : response' = ErrorPacket(UNKNOWN, residue)
    /\ step' = "answered"
    /\ UNCHANGED <<procedures, call, request, outcome>>

\* callProxyHelper reads the arguments, calls the procedure, packs the result.
Execute ==
    LET name == ReadName(request)
        args == ReadArgs(Args[name], request)
    IN
    /\ step = "sent" /\ name \in procedures
    /\ args.s.state \notin {"throw", "endless"}
    /\ \E ret \in RetValues[name] :
         /\ executed' = [name |-> name, args |-> args.val, state |-> args.s.state,
                         end |-> "returns", ret |-> ret]
         /\ response' = WriteReturn(SUCCESS, Ret[name], ret)
    /\ step' = "answered"
    /\ UNCHANGED <<procedures, call, request, outcome>>

(***************************************************************************)
(* remoteCall unpacks a result of the type it expects and then looks at    *)
(* the code.  A result that cannot be had in memory makes it throw another *)
(* exception, or never return; one that is not there leaves the value      *)
(* undefined, and, when a string is read after the failure, everything     *)
(* else.                                                                   *)
(***************************************************************************)
Outcomes(packet) ==
    CASE packet.state = "endless" -> {}
      [] packet.state = "throw" -> {Outcome("throws", None)}
      [] packet.state = "fail" /\ packet.code = SUCCESS -> {Outcome("undefined", None)}
      [] packet.state = "fail" /\ packet.code # SUCCESS ->
             {Outcome("undefined", None), Outcome("error", packet.code)}
      [] packet.state = "good" /\ packet.code = SUCCESS -> {Outcome("returns", packet.ret)}
      [] packet.state = "good" /\ packet.code # SUCCESS -> {Outcome("error", packet.code)}

Return ==
    /\ step = "answered"
    /\ outcome' \in Outcomes(ReadReturn(Ret[call.name], response))
    /\ step' = "done"
    /\ UNCHANGED <<procedures, call, request, executed, response>>

Next ==
    \/ \E name \in Names : Register(name)
    \/ \E name \in Names : \E args \in ArgValues[name] : Call(name, args)
    \/ Start \/ NoSuchProcedure \/ Throw \/ Execute \/ Return

Spec == Init /\ [][Next]_vars

-----------------------------------------------------------------------------
(* Properties. *)

IsWord(name) == name # <<>> /\ \A i \in DOMAIN name : name[i] # Blank

PlainCall == IsWord(call.name) /\ CodecOf(Args[call.name]).plain[call.args]

(***************************************************************************)
(* The procedure that is executed is the one that was called, with the     *)
(* arguments that were passed: whatever the types, elements, depth and     *)
(* blanks in strings, if the name is one word and the arguments are plain. *)
(***************************************************************************)
ArgumentsArrive ==
    executed # None /\ PlainCall =>
        /\ executed.name = call.name /\ executed.state = "good"
        /\ executed.args = call.args

NoNul == \A i \in DOMAIN response : response[i] # Nul

(***************************************************************************)
(* The caller is told how the call ended: the result that was returned, if *)
(* it is plain and holds no NUL character; the error code, if the result   *)
(* is a number or a character.  An error is never taken for a result: if   *)
(* the result is anything else remoteCall may fail in another way, and     *)
(* never return if that is a set or a map.                                 *)
(***************************************************************************)
OutcomeMatches ==
    outcome # None /\ IsWord(call.name) =>
        IF executed # None /\ executed.end = "returns"
        THEN CodecOf(Ret[call.name]).plain[executed.ret] /\ NoNul
                 => outcome = Outcome("returns", executed.ret)
        ELSE /\ outcome.how # "returns"
             /\ Ret[call.name].kind \in {"int", "char"} =>
                  outcome = Outcome("error", IF executed = None THEN NO_SUCH_PROCEDURE
                                                                ELSE UNKNOWN)
=============================================================================
