----------------------------- MODULE InviteCreate -----------------------------
(***************************************************************************)
(* The gateway payload InviteCreate (model/src/gateway/payload/            *)
(* invite_create.rs) and its derived serde, stated over serde_test's       *)
(* token stream: a struct is a Struct token carrying the length the        *)
(* serializer announces, a key and a value per field written, and a        *)
(* StructEnd.  Serialize writes the fields in declaration order and skips  *)
(* an Option marked skip_serializing_if when it is None.  The derived      *)
(* Deserialize reads the keys in any order, ignores unknown keys, rejects  *)
(* a duplicate key, reads a missing Option as None and rejects any other   *)
(* missing field.  The gateway's JSON is the same stream in another form:  *)
(* keys in any order, an absent Option sent as null, keys this struct does *)
(* not know.                                                               *)
(***************************************************************************)
EXTENDS Naturals, Sequences, SequencesExt, TLC

CONSTANTS None,          \* Option::None
          InviteValues,  \* the InviteCreate values checked
          IdValues       \* the ids those values use

Tok(t, v) == [t |-> t, v |-> v]

\* The field types: scalars, ids (a newtype around a number written as a
\* string), the opaque User and TargetType, PartialUser, and Options.
OptOf == [opt_user |-> "user", opt_target |-> "target", opt_puser |-> "puser",
          opt_str |-> "str"]
IdName == [channel_id |-> "ChannelId", guild_id |-> "GuildId", user_id |-> "UserId"]
\* The integer field types; every value on the wire fits a u64, a u8 holds
\* up to 255.
Ints == {"u8", "u64"}
Fits(ty, n) == ty = "u64" \/ n <= 255

\* struct InviteCreate: its fields in declaration order and their types.
InviteOrder == <<"channel_id", "code", "created_at", "guild_id", "inviter",
                 "max_age", "max_uses", "target_user_type", "target_user",
                 "temporary", "uses">>
InviteSchema ==
    [channel_id |-> "channel_id", code |-> "str", created_at |-> "str",
     guild_id |-> "guild_id", inviter |-> "opt_user", max_age |-> "u64",
     max_uses |-> "u64", target_user_type |-> "opt_target",
     target_user |-> "opt_puser", temporary |-> "bool", uses |-> "u8"]

\* The fields marked skip_serializing_if = "Option::is_none".
InviteSkip == {"inviter", "target_user_type", "target_user"}

\* struct PartialUser: avatar is an Option without skip_serializing_if.
PartialUserOrder == <<"avatar", "discriminator", "id", "username">>
PartialUserSchema ==
    [avatar |-> "opt_str", discriminator |-> "str", id |-> "user_id", username |-> "str"]

InviteShape == [name |-> "InviteCreate", order |-> InviteOrder,
                schema |-> InviteSchema]
PartialUserShape == [name |-> "PartialUser", order |-> PartialUserOrder,
                     schema |-> PartialUserSchema]

-----------------------------------------------------------------------------
(* Serialize: the fields of order, except those of skip that are None,     *)
(* each a key and its value, then the extra entries (none from serde).     *)
RECURSIVE Ser(_, _), EncodeAs(_, _, _, _, _), SerFields(_, _, _)

Ser(ty, x) ==
    CASE ty \in DOMAIN OptOf ->
           IF x = None THEN <<Tok("none", "")>> ELSE <<Tok("some", "")>> \o Ser(OptOf[ty], x)
      [] ty \in DOMAIN IdName -> <<Tok("newtype", IdName[ty]), Tok("str", ToString(x))>>
      [] ty = "puser" -> EncodeAs(PartialUserShape, x, PartialUserOrder, {}, <<>>)
      [] OTHER -> <<Tok(ty, x)>>

SerFields(schema, x, fs) ==
    IF fs = <<>> THEN <<>>
    ELSE <<Tok("str", Head(fs))>> \o Ser(schema[Head(fs)], x[Head(fs)])
           \o SerFields(schema, x, Tail(fs))

EncodeAs(shape, x, order, skip, extra) ==
    LET written == SelectSeq(order, LAMBDA f : ~(f \in skip /\ x[f] = None))
    IN  <<Tok("struct", [name |-> shape.name, len |-> Len(written)])>>
          \o SerFields(shape.schema, x, written) \o extra \o <<Tok("end", "")>>

\* The derived Serialize of an InviteCreate.
Serialize(x) == EncodeAs(InviteShape, x, InviteOrder, InviteSkip, <<>>)

-----------------------------------------------------------------------------
(* Deserialize: a result is a value and the tokens left, or a failure.     *)
Ok(v, rest) == [ok |-> TRUE, val |-> v, rest |-> rest]
Fail == [ok |-> FALSE, val |-> None, rest |-> <<>>]

IdOf(s) == CHOOSE n \in IdValues : ToString(n) = s

\* The struct once StructEnd is read: a missing Option is None, any other
\* missing field fails.
Finish(shape, acc, rest) ==
    IF \A f \in DOMAIN shape.schema \ DOMAIN acc : shape.schema[f] \in DOMAIN OptOf
    THEN Ok([f \in DOMAIN shape.schema |-> IF f \in DOMAIN acc THEN acc[f] ELSE None], rest)
    ELSE Fail

RECURSIVE De(_, _), DeFields(_, _, _)

\* The visitor of a value of type ty; an integer token of any width is
\* accepted if the value fits the field.
De(ty, ts) ==
    IF ts = <<>> THEN Fail
    ELSE LET h == Head(ts) IN
    CASE ty \in DOMAIN OptOf ->
           CASE h.t = "none" -> Ok(None, Tail(ts))
             [] h.t = "some" -> De(OptOf[ty], Tail(ts))
             [] OTHER -> Fail
      [] ty \in DOMAIN IdName ->
           IF /\ h.t = "newtype" /\ Len(ts) > 1 /\ ts[2].t = "str"
              /\ \E n \in IdValues : ToString(n) = ts[2].v
           THEN Ok(IdOf(ts[2].v), Tail(Tail(ts))) ELSE Fail
      [] ty = "puser" ->
           IF h.t = "struct" THEN DeFields(PartialUserShape, Tail(ts), <<>>) ELSE Fail
      [] ty \in Ints ->
           IF h.t \in Ints /\ Fits(ty, h.v) THEN Ok(h.v, Tail(ts)) ELSE Fail
      [] OTHER -> IF h.t = ty THEN Ok(h.v, Tail(ts)) ELSE Fail

\* Mutant: #[serde(deny_unknown_fields)], an unknown key fails.
DeFieldsStrict(shape, ts, acc) ==
    CASE ts = <<>> -> Fail
      [] Head(ts).t = "end" -> Finish(shape, acc, Tail(ts))
      [] Head(ts).t # "str" \/ Head(ts).v \in DOMAIN acc -> Fail
      [] Head(ts).v \notin DOMAIN shape.schema -> Fail
      [] OTHER -> LET r == De(shape.schema[Head(ts).v], Tail(ts)) IN
                  IF r.ok THEN DeFields(shape, r.rest, (Head(ts).v :> r.val) @@ acc)
                  ELSE Fail

\* The derived visit_map: keys until StructEnd; an unknown key's value is
\* skipped (one scalar here), a repeated key fails.
DeFields(shape, ts, acc) ==
    CASE ts = <<>> -> Fail
      [] Head(ts).t = "end" -> Finish(shape, acc, Tail(ts))
      [] Head(ts).t # "str" \/ Head(ts).v \in DOMAIN acc -> Fail
      [] Head(ts).v \notin DOMAIN shape.schema ->
           IF Len(ts) < 2 THEN Fail ELSE DeFields(shape, Tail(Tail(ts)), acc)
      [] OTHER -> LET r == De(shape.schema[Head(ts).v], Tail(ts)) IN
                  IF r.ok THEN DeFields(shape, r.rest, (Head(ts).v :> r.val) @@ acc)
                  ELSE Fail

\* The derived Deserialize of an InviteCreate.
Deserialize(ts) ==
    IF ts # <<>> /\ Head(ts).t = "struct" THEN DeFields(InviteShape, Tail(ts), <<>>)
    ELSE Fail

-----------------------------------------------------------------------------
(* The forms the gateway's JSON can give an InviteCreate: any key order    *)
(* (declaration order or its reverse here), an absent Option or an         *)
(* explicit null, and the key target_type this struct does not declare.   *)
UnknownKey == <<Tok("str", "target_type"), Tok("u64", 1)>>

GatewayForms(x) ==
    {EncodeAs(InviteShape, x, o, sk, ex) :
        o \in {InviteOrder, Reverse(InviteOrder)}, sk \in {InviteSkip, {}},
        ex \in {<<>>, UnknownKey}}

VARIABLES phase,   \* "value", "wire" (tokens written), "decoded"
          source,  \* who wrote the tokens: "serde" or "gateway"
          val,     \* the InviteCreate
          wire,    \* its tokens
          dec      \* the result of Deserialize

vars == <<phase, source, val, wire, dec>>

Init ==
    /\ phase = "value" /\ source = "serde" /\ val \in InviteValues
    /\ wire = <<>> /\ dec = Fail

\* serde's Serialize writes the value.
WriteSerde ==
    /\ phase = "value"
    /\ wire' = Serialize(val)
    /\ phase' = "wire" /\ source' = "serde"
    /\ UNCHANGED <<val, dec>>

\* The gateway sends the value in one of its JSON forms.
WriteGateway ==
    /\ phase = "value"
    /\ \E w \in GatewayForms(val) : wire' = w
    /\ phase' = "wire" /\ source' = "gateway"
    /\ UNCHANGED <<val, dec>>

Read ==
    /\ phase = "wire"
    /\ dec' = Deserialize(wire)
    /\ phase' = "decoded"
    /\ UNCHANGED <<source, val, wire>>

Done == phase = "decoded" /\ UNCHANGED vars

Next == WriteSerde \/ WriteGateway \/ Read \/ Done

Spec == Init /\ [][Next]_vars

-----------------------------------------------------------------------------
\* The derived Deserialize gives back exactly the value written, whether
\* serde's Serialize wrote it or the gateway sent it with its keys in
\* another order, absent Options as null, or an unknown key: about the
\* skip_serializing_if fields (absent on the wire) and the Option PartialUser
\* nested in an Option, against the visitor's missing-field, duplicate-key
\* and unknown-key rules.
DecodeInverts == phase = "decoded" => dec = Ok(val, <<>>)

-----------------------------------------------------------------------------
(* The values of the tests of invite_create.rs, from which MC_InviteCreate *)
(* builds the checked values by varying every Option.                     *)
Avatar == "aaaaaaaaaaaaaaaaaaaaaaaaaaaaaaaa"

TestPartialUser ==
    [avatar |-> Avatar, discriminator |-> "123", id |-> 1, username |-> "twilight"]

TestInviteCreate ==
    [channel_id |-> 1, code |-> "aaaaaaa", created_at |-> "2021-01-01T00:00:00+00:00",
     guild_id |-> 2, inviter |-> None, max_age |-> 3600, max_uses |-> 5,
     target_user_type |-> None, target_user |-> None, temporary |-> FALSE, uses |-> 0]

=============================================================================
