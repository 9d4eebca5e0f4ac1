------------------------------- MODULE ApiError -------------------------------
(***************************************************************************)
(* The error bodies of the HTTP client (http/src/api_error.rs): the        *)
(* numeric ErrorCode with its two hand-written tables (ErrorCode::num and  *)
(* From<u64>), the serde round trip through them, and the Display of a     *)
(* MessageApiError.  A value goes through a pipeline: a number read from   *)
(* the wire is deserialized, an ErrorCode is serialized back to a number,  *)
(* and so on up to MaxTrips times; a MessageApiError body is formatted.    *)
(***************************************************************************)
EXTENDS Naturals, SequencesExt, FiniteSets

CONSTANTS
    Unregistered,  \* numbers no variant of ErrorCode is registered for
    Widths,        \* the integer widths a number may arrive in (visit_u8 ...)
    EmbedLists,    \* the embed lists of MessageApiError bodies
    None,          \* Option::None
    RetryAfters,   \* RatelimitedApiError::retry_after values
    MaxTrips       \* bound on serializations of one value

ASSUME MaxTrips \in Nat /\ Widths \subseteq {8, 16, 32, 64}

VARIABLES
    phase,     \* "wire", "decoded", "body" or "shown"
    wire,      \* the number on the wire and the width it arrived in
    code,      \* the deserialized ErrorCode
    trips,     \* serializations so far
    seenWire,  \* every number the value has had on the wire
    seenCode,  \* every ErrorCode the value has been decoded to
    embed,     \* MessageApiError::embed
    out,       \* what Display wrote
    api,       \* the ApiError value
    orig,      \* the ApiError value the pipeline started with
    json       \* the JSON object the ApiError was serialized to

vars == <<phase, wire, code, trips, seenWire, seenCode, embed, out, api, orig,
          json>>

-----------------------------------------------------------------------------
(* ErrorCode: a registered variant, or Other(n).                           *)

\* The arms of ErrorCode::num, variant => number.
NumArms == <<
    <<"GeneralError", 0>>, <<"UnknownAccount", 10001>>, <<"UnknownApplication", 10002>>,
    <<"UnknownChannel", 10003>>, <<"UnknownGuild", 10004>>, <<"UnknownIntegration", 10005>>,
    <<"UnknownInvite", 10006>>, <<"UnknownMember", 10007>>, <<"UnknownMessage", 10008>>,
    <<"UnknownPermissionOverwrite", 10009>>, <<"UnknownProvider", 10010>>, <<"UnknownRole", 10011>>,
    <<"UnknownToken", 10012>>, <<"UnknownUser", 10013>>, <<"UnknownEmoji", 10014>>,
    <<"UnknownWebhook", 10015>>, <<"UnknownWebhookService", 10016>>, <<"UnknownSession", 10020>>,
    <<"UnknownBan", 10026>>, <<"UnknownSKU", 10027>>, <<"UnknownStoreListing", 10028>>,
    <<"UnknownEntitlement", 10029>>, <<"UnknownBuild", 10030>>, <<"UnknownLobby", 10031>>,
    <<"UnknownBranch", 10032>>, <<"UnknownStoreDirectoryLayout", 10033>>,
    <<"UnknownRedistributable", 10036>>, <<"UnknownGiftCode", 10038>>, <<"UnknownStream", 10049>>,
    <<"UnknownPremiumServerSubscribeCooldown", 10050>>, <<"UnknownGuildTemplate", 10057>>,
    <<"UnknownDiscoverableServerCategory", 10059>>, <<"UnknownSticker", 10060>>,
    <<"UnknownInteraction", 10062>>, <<"UnknownApplicationCommand", 10063>>,
    <<"UnknownApplicationCommandPermissions", 10066>>, <<"UnknownStageInstance", 10067>>,
    <<"UnknownGuildMemberVerificationForm", 10068>>, <<"UnknownGuildWelcomeScreen", 10069>>,
    <<"UnknownGuildScheduledEvent", 10070>>, <<"UnknownGuildScheduledEventUser", 10071>>,
    <<"BotsCannotUseEndpoint", 20001>>, <<"OnlyBotsCanUseEndpoint", 20002>>,
    <<"ExplicitContentSendingBlocked", 20009>>, <<"UnauthorizedApplicationAction", 20012>>,
    <<"SlowModeRateLimitReached", 20016>>, <<"NotAccountOwner", 20018>>,
    <<"AnnouncementRateLimitReached", 20022>>, <<"ChannelRateLimitReached", 20028>>,
    <<"UnallowedWords", 20031>>, <<"GuildPremiumTooLow", 20035>>, <<"MaximumGuildsReached", 30001>>,
    <<"MaximumFriendsReached", 30002>>, <<"MaximumPinsReached", 30003>>,
    <<"MaximumRecipientsReached", 30004>>, <<"MaximumRolesReached", 30005>>,
    <<"MaximumWebhooksReached", 30007>>, <<"MaximumEmojisReached", 30008>>,
    <<"MaximumReactionsReached", 30010>>, <<"MaximumGuildChannelsReached", 30013>>,
    <<"MaximumAttachmentsReached", 30015>>, <<"MaximumInvitesReached", 30016>>,
    <<"MaximumAnimatedEmojisReached", 30018>>, <<"MaximumGuildMembersReached", 30019>>,
    <<"MaximumServerCategoriesReached", 30030>>, <<"GuildTemplateAlreadyExist", 30031>>,
    <<"ThreadMaxParticipants", 30033>>, <<"MaximumNonGuildBansReached", 30035>>,
    <<"MaximumGuildBansFetchesReached", 30037>>, <<"MaximumStickersReached", 30039>>,
    <<"MaximumPruneRequestsReached", 30040>>, <<"Unauthorized", 40001>>,
    <<"AccountNeedsVerification", 40002>>, <<"OpeningDirectMessageRateLimitReached", 40003>>,
    <<"RequestEntityTooLarge", 40005>>, <<"FeatureTemporarilyDisabled", 40006>>,
    <<"UserBannedFromGuild", 40007>>, <<"UserNotInVoice", 40032>>,
    <<"MessageAlreadyCrossposted", 40033>>, <<"CommandNameAlreadyExists", 40041>>,
    <<"Missingaccess", 50001>>, <<"InvalidAccountType", 50002>>,
    <<"InvalidDMChannelAction", 50003>>, <<"GuildWidgetDisabled", 50004>>,
    <<"MessageNotAuthoredByUser", 50005>>, <<"EmptyMessage", 50006>>,
    <<"CannotSendMessageToUser", 50007>>, <<"CannotSendMessagesInVoiceChannel", 50008>>,
    <<"VerificationLevelTooHigh", 50009>>, <<"OAuthApplicationHasNoBot", 50010>>,
    <<"OAuthApplicationLimitReached", 50011>>, <<"InvalidOAuthSstate", 50012>>,
    <<"PermissionsLacking", 50013>>, <<"InvalidAuthenticationTokenProvided", 50014>>,
    <<"NoteTooLong", 50015>>, <<"InvalidMessageDeleteRange", 50016>>,
    <<"MessagePinnedInWrongChannel", 50019>>, <<"InviteCodeInvalidOrTaken", 50020>>,
    <<"InvalidActionOnSystemMessage", 50021>>, <<"CannotExecuteActionOnChannelType", 50024>>,
    <<"InvalidOAuthAccessToken", 50025>>, <<"MissingOAuthScope", 50026>>,
    <<"InvalidWebhookToken", 50027>>, <<"InvalidRole", 50028>>, <<"InvalidRecipient", 50033>>,
    <<"MessageTooOldToBulkDelete", 50034>>, <<"InvalidFormBodyOrContentType", 50035>>,
    <<"InviteAcceptedToGuildBotNotIn", 50036>>, <<"InvalidApiVersion", 50041>>,
    <<"CannotSelfRedeemGift", 50054>>, <<"PaymentRequiredForGift", 50070>>,
    <<"CommunityGuildRequired", 50074>>, <<"InvalidStickerSent", 50081>>,
    <<"ThreadArchived", 50083>>, <<"ThreadInvalidNotificationSettings", 50084>>,
    <<"ThreadInvalidBeforeValue", 50085>>, <<"ServerNotAvailableLocation", 50095>>,
    <<"ServerNeedsMonetiazation", 50097>>, <<"TwoFactorRequired", 60003>>, <<"NoSuchUser", 80004>>,
    <<"ReactionBlocked", 90001>>, <<"ApiResourceOverloaded", 130000>>,
    <<"StageAlreadyOpen", 150006>>, <<"ThreadAlreadyCreated", 160004>>, <<"ThreadLocked", 160005>>,
    <<"MaxActiveThreads", 160006>>, <<"MaxActiveAnnouncementThreads", 160007>>
>>

\* The arms of From<u64> for ErrorCode, number => variant.
FromArms == <<
    <<0, "GeneralError">>, <<10001, "UnknownAccount">>, <<10002, "UnknownApplication">>,
    <<10003, "UnknownChannel">>, <<10004, "UnknownGuild">>, <<10005, "UnknownIntegration">>,
    <<10006, "UnknownInvite">>, <<10007, "UnknownMember">>, <<10008, "UnknownMessage">>,
    <<10009, "UnknownPermissionOverwrite">>, <<10010, "UnknownProvider">>, <<10011, "UnknownRole">>,
    <<10012, "UnknownToken">>, <<10013, "UnknownUser">>, <<10014, "UnknownEmoji">>,
    <<10015, "UnknownWebhook">>, <<10016, "UnknownWebhookService">>, <<10020, "UnknownSession">>,
    <<10026, "UnknownBan">>, <<10027, "UnknownSKU">>, <<10028, "UnknownStoreListing">>,
    <<10029, "UnknownEntitlement">>, <<10030, "UnknownBuild">>, <<10031, "UnknownLobby">>,
    <<10032, "UnknownBranch">>, <<10033, "UnknownStoreDirectoryLayout">>,
    <<10036, "UnknownRedistributable">>, <<10038, "UnknownGiftCode">>, <<10049, "UnknownStream">>,
    <<10050, "UnknownPremiumServerSubscribeCooldown">>, <<10057, "UnknownGuildTemplate">>,
    <<10059, "UnknownDiscoverableServerCategory">>, <<10060, "UnknownSticker">>,
    <<10062, "UnknownInteraction">>, <<10063, "UnknownApplicationCommand">>,
    <<10066, "UnknownApplicationCommandPermissions">>, <<10067, "UnknownStageInstance">>,
    <<10068, "UnknownGuildMemberVerificationForm">>, <<10069, "UnknownGuildWelcomeScreen">>,
    <<10070, "UnknownGuildScheduledEvent">>, <<10071, "UnknownGuildScheduledEventUser">>,
    <<20001, "BotsCannotUseEndpoint">>, <<20002, "OnlyBotsCanUseEndpoint">>,
    <<20022, "AnnouncementRateLimitReached">>, <<20009, "ExplicitContentSendingBlocked">>,
    <<20012, "UnauthorizedApplicationAction">>, <<20016, "SlowModeRateLimitReached">>,
    <<20018, "NotAccountOwner">>, <<20028, "ChannelRateLimitReached">>, <<20031, "UnallowedWords">>,
    <<20035, "GuildPremiumTooLow">>, <<30001, "MaximumGuildsReached">>,
    <<30002, "MaximumFriendsReached">>, <<30003, "MaximumPinsReached">>,
    <<30004, "MaximumRecipientsReached">>, <<30005, "MaximumRolesReached">>,
    <<30007, "MaximumWebhooksReached">>, <<30008, "MaximumEmojisReached">>,
    <<30010, "MaximumReactionsReached">>, <<30013, "MaximumGuildChannelsReached">>,
    <<30015, "MaximumAttachmentsReached">>, <<30016, "MaximumInvitesReached">>,
    <<30018, "MaximumAnimatedEmojisReached">>, <<30019, "MaximumGuildMembersReached">>,
    <<30030, "MaximumServerCategoriesReached">>, <<30031, "GuildTemplateAlreadyExist">>,
    <<30033, "ThreadMaxParticipants">>, <<30035, "MaximumNonGuildBansReached">>,
    <<30037, "MaximumGuildBansFetchesReached">>, <<30039, "MaximumStickersReached">>,
    <<30040, "MaximumPruneRequestsReached">>, <<40001, "Unauthorized">>,
    <<40002, "AccountNeedsVerification">>, <<40003, "OpeningDirectMessageRateLimitReached">>,
    <<40005, "RequestEntityTooLarge">>, <<40006, "FeatureTemporarilyDisabled">>,
    <<40007, "UserBannedFromGuild">>, <<40032, "UserNotInVoice">>,
    <<40033, "MessageAlreadyCrossposted">>, <<40041, "CommandNameAlreadyExists">>,
    <<50001, "Missingaccess">>, <<50002, "InvalidAccountType">>,
    <<50003, "InvalidDMChannelAction">>, <<50004, "GuildWidgetDisabled">>,
    <<50005, "MessageNotAuthoredByUser">>, <<50006, "EmptyMessage">>,
    <<50007, "CannotSendMessageToUser">>, <<50008, "CannotSendMessagesInVoiceChannel">>,
    <<50009, "VerificationLevelTooHigh">>, <<50010, "OAuthApplicationHasNoBot">>,
    <<50011, "OAuthApplicationLimitReached">>, <<50012, "InvalidOAuthSstate">>,
    <<50013, "PermissionsLacking">>, <<50014, "InvalidAuthenticationTokenProvided">>,
    <<50015, "NoteTooLong">>, <<50016, "InvalidMessageDeleteRange">>,
    <<50019, "MessagePinnedInWrongChannel">>, <<50020, "InviteCodeInvalidOrTaken">>,
    <<50021, "InvalidActionOnSystemMessage">>, <<50024, "CannotExecuteActionOnChannelType">>,
    <<50025, "InvalidOAuthAccessToken">>, <<50026, "MissingOAuthScope">>,
    <<50027, "InvalidWebhookToken">>, <<50028, "InvalidRole">>, <<50033, "InvalidRecipient">>,
    <<50034, "MessageTooOldToBulkDelete">>, <<50035, "InvalidFormBodyOrContentType">>,
    <<50036, "InviteAcceptedToGuildBotNotIn">>, <<50041, "InvalidApiVersion">>,
    <<50054, "CannotSelfRedeemGift">>, <<50070, "PaymentRequiredForGift">>,
    <<50074, "CommunityGuildRequired">>, <<50081, "InvalidStickerSent">>,
    <<50083, "ThreadArchived">>, <<50084, "ThreadInvalidNotificationSettings">>,
    <<50085, "ThreadInvalidBeforeValue">>, <<50095, "ServerNotAvailableLocation">>,
    <<50097, "ServerNeedsMonetiazation">>, <<60003, "TwoFactorRequired">>, <<80004, "NoSuchUser">>,
    <<90001, "ReactionBlocked">>, <<130000, "ApiResourceOverloaded">>,
    <<150006, "StageAlreadyOpen">>, <<160004, "ThreadAlreadyCreated">>, <<160005, "ThreadLocked">>,
    <<160006, "MaxActiveThreads">>, <<160007, "MaxActiveAnnouncementThreads">>
>>

Variants == {NumArms[i][1] : i \in DOMAIN NumArms}
Registered == {FromArms[i][1] : i \in DOMAIN FromArms}

\* The value of the first arm of a match whose pattern is key.
FirstArm(arms, key) == arms[Min({i \in DOMAIN arms : arms[i][1] = key})][2]

Named(v) == [name |-> v, other |-> 0]
Other(n) == [name |-> "Other", other |-> n]

ErrorCode == {Named(v) : v \in Variants} \cup [name: {"Other"}, other: Nat]

\* ErrorCode::num
Num(c) ==
    IF c.name = "Other" THEN c.other
    ELSE FirstArm(NumArms, c.name)

\* Mutant: the From arm of 20022 (AnnouncementRateLimitReached) missing.
FromCodeMissingArm(n) ==
    IF n \in Registered \ {20022}
    THEN Named(FirstArm(FromArms, n))
    ELSE Other(n)

\* From<u64> for ErrorCode: the first arm whose number matches, else Other.
FromCode(n) ==
    IF n \in Registered
    THEN Named(FirstArm(FromArms, n))
    ELSE Other(n)

\* A number of width w: visit_u8/u16/u32 widen with u64::from, which keeps
\* the value, and call visit_u64.
Fits(n, w) == \/ w \in {32, 64}
              \/ w = 16 /\ n < 65536
              \/ w = 8 /\ n < 256

\* Mutant: the number written with serialize_u16.
WireWidth16 == 16

\* Serialize for ErrorCode writes the number with serialize_u64.
WireWidth == 64

-----------------------------------------------------------------------------
(* MessageApiError's Display.                                              *)

\* Display of MessageApiErrorEmbedField.
FieldName == [Fields |-> "fields", Timestamp |-> "timestamp"]

\* Concatenation of a sequence of strings.
Concat(strs) == FoldLeft(LAMBDA acc, x : acc \o x, "", strs)

\* The loop over the embed fields: each field, then ", " after the field
\* whose index equals embed.len().saturating_sub(1).
EmbedText(e) ==
    LET fieldCount == IF Len(e) = 0 THEN 0 ELSE Len(e) - 1
    IN  Concat([i \in 1..Len(e) |->
                   FieldName[e[i]] \o (IF i - 1 = fieldCount THEN ", " ELSE "")])

\* Display for MessageApiError.
MessageDisplay(e) ==
    "message fields invalid: "
    \o (IF e = None THEN "" ELSE "embed (" \o EmbedText(e) \o ")")

-----------------------------------------------------------------------------
WireInputs == {[num |-> n, width |-> w] : n \in Registered \cup Unregistered,
                                          w \in Widths}

CodeInputs == {Named(v) : v \in Variants} \cup {Other(n) : n \in Unregistered}

-----------------------------------------------------------------------------
(* ApiError: an untagged enum of GeneralApiError, MessageApiError and       *)
(* RatelimitedApiError.  A JSON object is a record of the fields present.   *)

Messages == {"msg"}  \* the API's human-readable message text

ApiValues ==
    [kind: {"General"}, code: CodeInputs, message: Messages]
    \cup [kind: {"Message"}, embed: EmbedLists \cup {None}]
    \cup [kind: {"Ratelimited"}, global: BOOLEAN, message: Messages,
          retry_after: RetryAfters]

\* Serialize of the untagged enum: the inner struct's fields; ErrorCode is
\* written with serialize_u64(num()), Option::None as null.
ToJson(v) ==
    CASE v.kind = "General" -> [code |-> Num(v.code), message |-> v.message]
      [] v.kind = "Message" -> [embed |-> v.embed]
      [] v.kind = "Ratelimited" ->
             [global |-> v.global, message |-> v.message,
              retry_after |-> v.retry_after]

\* Whether the derived Deserialize of each struct accepts the object:
\* required fields present, unknown fields ignored, a missing Option field
\* read as None.
GeneralFits(j) == {"code", "message"} \subseteq DOMAIN j
MessageFits(j) == "embed" \notin DOMAIN j \/ j.embed \in EmbedLists \cup {None}
RatelimitedFits(j) == {"global", "message", "retry_after"} \subseteq DOMAIN j

\* Deserialize of the untagged enum: the variants are tried in declaration
\* order and the first that deserializes is taken.
FromJson(j) ==
    IF GeneralFits(j)
    THEN [kind |-> "General", code |-> FromCode(j.code), message |-> j.message]
    ELSE IF MessageFits(j)
    THEN [kind |-> "Message",
          embed |-> IF "embed" \in DOMAIN j THEN j.embed ELSE None]
    ELSE [kind |-> "Ratelimited", global |-> j.global, message |-> j.message,
          retry_after |-> j.retry_after]

\* The derived PartialEq of ApiError; RatelimitedApiError's own PartialEq
\* compares global and message and ignores retry_after.
ApiEq(a, b) ==
    /\ a.kind = b.kind
    /\ a.kind = "General" => a.code = b.code /\ a.message = b.message
    /\ a.kind = "Message" => a.embed = b.embed
    /\ a.kind = "Ratelimited" => a.global = b.global /\ a.message = b.message

NoApi == [kind |-> "Message", embed |-> None]

Init ==
    /\ trips = 0
    /\ out = ""
    /\ json = ToJson(NoApi)
    /\ \/ phase = "api" /\ api \in ApiValues
       \/ phase \in {"wire", "decoded", "body"} /\ api = NoApi
    /\ orig = api
    /\ phase = "api" =>
          wire = [num |-> 0, width |-> 64] /\ code = Other(0) /\ embed = None
          /\ seenWire = {} /\ seenCode = {}
    /\ \/ phase = "api"
       \/ /\ phase = "wire"
          /\ wire \in {x \in WireInputs : Fits(x.num, x.width)}
          /\ code = Other(0)
          /\ seenWire = {wire.num} /\ seenCode = {}
          /\ embed = None
       \/ /\ phase = "decoded"
          /\ code \in CodeInputs
          /\ wire = [num |-> 0, width |-> 64]
          /\ seenWire = {} /\ seenCode = {code}
          /\ embed = None
       \/ /\ phase = "body"
          /\ embed \in EmbedLists \cup {None}
          /\ wire = [num |-> 0, width |-> 64] /\ code = Other(0)
          /\ seenWire = {} /\ seenCode = {}

\* Deserialize for ErrorCode: the visitor for the number's width.
Deserialize ==
    /\ phase = "wire"
    /\ code' = FromCode(wire.num)
    /\ seenCode' = seenCode \cup {code'}
    /\ phase' = "decoded"
    /\ UNCHANGED <<wire, trips, seenWire, embed, out, api, orig, json>>

\* Serialize for ErrorCode: serialize_u64(self.num()).
Serialize ==
    /\ phase = "decoded"
    /\ trips < MaxTrips
    /\ wire' = [num |-> Num(code), width |-> WireWidth]
    /\ seenWire' = seenWire \cup {wire'.num}
    /\ trips' = trips + 1
    /\ phase' = "wire"
    /\ UNCHANGED <<code, seenCode, embed, out, api, orig, json>>

\* Display::fmt of a MessageApiError.
Format ==
    /\ phase = "body"
    /\ out' = MessageDisplay(embed)
    /\ phase' = "shown"
    /\ UNCHANGED <<wire, code, trips, seenWire, seenCode, embed, api, orig,
                   json>>

\* Serialize for ApiError.
SerializeApi ==
    /\ phase = "api"
    /\ trips < MaxTrips
    /\ json' = ToJson(api)
    /\ trips' = trips + 1
    /\ phase' = "json"
    /\ UNCHANGED <<wire, code, seenWire, seenCode, embed, out, api, orig>>

\* Deserialize for ApiError.
DeserializeApi ==
    /\ phase = "json"
    /\ api' = FromJson(json)
    /\ phase' = "api"
    /\ UNCHANGED <<wire, code, trips, seenWire, seenCode, embed, out, orig, json>>

\* Nothing is left to do with the value.
Done ==
    /\ \/ phase = "shown"
       \/ phase \in {"decoded", "api"} /\ trips = MaxTrips
    /\ UNCHANGED vars

Next == Deserialize \/ Serialize \/ Format \/ SerializeApi \/ DeserializeApi \/ Done

Spec == Init /\ [][Next]_vars

-----------------------------------------------------------------------------
TypeOK ==
    /\ phase \in {"wire", "decoded", "body", "shown", "api", "json"}
    /\ api \in ApiValues \cup {NoApi}
    /\ wire.num \in Nat /\ wire.width \in Widths \cup {64}
    /\ Fits(wire.num, wire.width)
    /\ code \in ErrorCode
    /\ trips \in 0..MaxTrips
    /\ seenWire \subseteq Nat
    /\ seenCode \subseteq ErrorCode

\* Serializing and deserializing never changes a value: a number read from
\* the wire is written back as the same number, and an ErrorCode written
\* out reads back as the same variant.  Holds iff the arms of num and of
\* From<u64> are inverse to each other on every number either lists, and
\* Other(n) is kept for every other number.
RoundTripStable ==
    Cardinality(seenWire) <= 1 /\ Cardinality(seenCode) <= 1

\* The embed fields of a MessageApiError are shown separated by ", ", as
\* "embed (fields, timestamp)".  About the separator condition of
\* MessageApiError's Display (idx == field_count).
EmbedFieldsSeparated ==
    phase = "shown" /\ embed # None =>
        out = "message fields invalid: embed ("
              \o Concat([i \in 1..Len(embed) |->
                            (IF i > 1 THEN ", " ELSE "") \o FieldName[embed[i]]])
              \o ")"

\* An ApiError serialized and deserialized again equals itself under
\* ApiError's own PartialEq, for every variant.  test_api_error_message
\* checks this with assert_tokens for ApiError::Message; it is about the
\* untagged Deserialize, which tries the variants in declaration order.
BodyRoundTrip == ApiEq(api, orig)

=============================================================================
