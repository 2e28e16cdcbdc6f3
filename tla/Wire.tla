-------------------------------- MODULE Wire --------------------------------
(***************************************************************************)
(* The messages between a client and a server (core/messages/) and how     *)
(* they go through a socket (core/util/socket.hpp): a stream of fields.    *)
(* A field is what one write puts into the stream, and one read takes out  *)
(* of it, with the number of its bytes; a read that takes another number   *)
(* than was written does not find the message.  The type comes first.      *)
(*                                                                         *)
(* The audible messages are read and written as the drawable ones; nothing *)
(* in the program makes one.                                               *)
(***************************************************************************)
EXTENDS Integers, Sequences

AddDrawable(id)      == [type |-> "Add", objid |-> id]
DelDrawable(id)      == [type |-> "Del", objid |-> id]
TransDrawable(id, t) == [type |-> "Trans", objid |-> id, transform |-> t]
LoadPlayer           == [type |-> "LoadPlayer"]
Input(keys)          == [type |-> "Input", state |-> keys]
Shutdown             == [type |-> "Shutdown"]

(* What a message becomes that is not read as it was written. *)
Garbage == [type |-> "Garbage"]

(* The numbers of the types, ClientMsg::MessageType and                    *)
(* ServerMsg::MessageType; a stream has messages of one kind.              *)
ClientMsg == [Add |-> 0, Trans |-> 2, Del |-> 4]
ServerMsg == [Shutdown |-> 0, Input |-> 1, LoadPlayer |-> 2]

TypeOf(kind, number) == CHOOSE type \in DOMAIN kind : kind[type] = number
-----------------------------------------------------------------------------
Pod(bytes, value) == <<[bytes |-> bytes, value |-> value]>>

(* writeString: the length, then the characters.  There is one template,   *)
(* "Player".                                                               *)
TemplateLength == 6
String == Pod(4, TemplateLength) \o Pod(TemplateLength, "Player")

(* The write functions of the messages. *)
Fields(msg) ==
  CASE msg.type = "Add"        -> Pod(4, msg.objid) \o String
    [] msg.type = "Del"        -> Pod(4, msg.objid)
    [] msg.type = "Trans"      -> Pod(4, msg.objid) \o Pod(64, msg.transform)
    [] msg.type = "LoadPlayer" -> String
    [] msg.type = "Input"      -> Pod(2, msg.state)
    [] msg.type = "Shutdown"   -> <<>>

(* writeMsg of RemoteServer and of RemoteClient. *)
Encode(kind, msg) == Pod(4, kind[msg.type]) \o Fields(msg)

(* The bytes the read functions ask for, field by field; Counted is as     *)
(* many as the field before it says.                                       *)
Counted == 0

Wanted(type) ==
  CASE type = "Add"        -> <<4, 4, Counted>>
    [] type = "Del"        -> <<4>>
    [] type = "Trans"      -> <<4, 64>>
    [] type = "LoadPlayer" -> <<4, Counted>>
    [] type = "Input"      -> <<2>>
    [] type = "Shutdown"   -> <<>>

(* The fields of a message of this type have arrived. *)
Arrived(type, s) == Len(s) >= Len(Wanted(type))

(* create and read: the message that the fields at the head of s make. *)
Body(type, s) ==
  LET Fits(i) == s[i].bytes = IF Wanted(type)[i] = Counted THEN s[i - 1].value ELSE Wanted(type)[i]
  IN  IF \E i \in 1..Len(Wanted(type)) : ~Fits(i) THEN Garbage
      ELSE CASE type = "Add"   -> AddDrawable(s[1].value)
             [] type = "Del"   -> DelDrawable(s[1].value)
             [] type = "Trans" -> TransDrawable(s[1].value, s[2].value)
             [] type = "Input" -> Input(s[1].value)
             [] OTHER          -> [type |-> type]

AfterBody(type, s) == SubSeq(s, Len(Wanted(type)) + 1, Len(s))
-----------------------------------------------------------------------------
(* What reading one more field makes of the messages that were read and    *)
(* the part of the next that has arrived.                                  *)
Take(kind, acc, field) ==
  LET part == Append(acc.part, field)
      type == TypeOf(kind, part[1].value)
  IN  IF Arrived(type, Tail(part))
        THEN [msgs |-> Append(acc.msgs, Body(type, Tail(part))), part |-> <<>>]
        ELSE [msgs |-> acc.msgs, part |-> part]

(* The messages that reading the stream s, which begins with a type, will  *)
(* give, and a last one that has not arrived in full.                      *)
ReadAll(kind, s) ==
  LET after[n \in 0..Len(s)] == IF n = 0 THEN [msgs |-> <<>>, part |-> <<>>]
                                ELSE Take(kind, after[n - 1], s[n])
  IN  after[Len(s)]

Decode(kind, s) == ReadAll(kind, s).msgs
=============================================================================
