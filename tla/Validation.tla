----------------------------- MODULE Validation -----------------------------
(***************************************************************************)
(* ValidateBody (middlewares/validator.go) and the request structs it is   *)
(* used with (services/models): the parsed body gets its defaults, is      *)
(* normalised by its `normalize` tags and checked by its `validate` tags.  *)
(*                                                                         *)
(* A string is its letters, word, with what normalisation may remove: the  *)
(* letter case and the blanks around them.  The word is Empty for "" and,  *)
(* when padded, for a blank string.                                        *)
(***************************************************************************)
EXTENDS Naturals, FiniteSets

CONSTANTS
  Word,       \* the words of the strings clients send
  Empty,      \* the empty word
  Nil,        \* a nil *string; a tag that is absent; a body that does not parse
  Runes,      \* length of each word in characters, which `min` and `max` count
  Bytes,      \* length of each word in bytes, which bcrypt counts
  Mailbox     \* the words the `email` rule accepts

ASSUME WordAssumption ==
  /\ Empty \in Word /\ Nil \notin Word
  /\ Runes \in [Word -> Nat] /\ Bytes \in [Word -> Nat]
  /\ Runes[Empty] = 0 /\ Bytes[Empty] = 0
  /\ Mailbox \subseteq Word \ {Empty}

Text == [word : Word, upper : BOOLEAN, padded : BOOLEAN]

ASSUME NilAssumption == Nil \notin Text

Plain(w) == [word |-> w, upper |-> FALSE, padded |-> FALSE]

Blanks(t) == IF t.padded THEN 1 ELSE 0
RuneCount(t) == Runes[t.word] + Blanks(t)
ByteCount(t) == Bytes[t.word] + Blanks(t)

TrimSpace(t) == [t EXCEPT !.padded = FALSE]
ToLower(t) == [t EXCEPT !.upper = FALSE]

-----------------------------------------------------------------------------
(* A struct is a function from its fields to their kinds and tags.         *)

Field(kind, rules, normalize) ==
  [kind |-> kind, validate |-> rules, normalize |-> normalize, default |-> Nil]

(* Broken variant: the normalize tag is forgotten. *)
RawRegisterRequest ==
  [email |-> Field("string", {"required", "email"}, {}),
   password |-> Field("string", {"required", "min=8"}, {}),
   name |-> Field("string", {"omitempty", "max=255"}, {})]

RegisterRequest ==
  [email |-> Field("string", {"required", "email"}, {"email"}),
   password |-> Field("string", {"required", "min=8"}, {}),
   name |-> Field("string", {"omitempty", "max=255"}, {})]

(* Broken variant: the e-mail is only trimmed. *)
TrimmedLoginRequest ==
  [email |-> Field("string", {"required", "email"}, {"trim"}),
   password |-> Field("string", {"required"}, {})]

LoginRequest ==
  [email |-> Field("string", {"required", "email"}, {"email"}),
   password |-> Field("string", {"required"}, {})]

RefreshRequest == [refresh_token |-> Field("string", {"required"}, {})]

UpdateUserRequest == [name |-> Field("ptr", {"omitempty", "max=255"}, {})]

Zero(kind) == IF kind = "ptr" THEN Nil ELSE Plain(Empty)

(* The struct reflect.New makes for an empty body. *)
ZeroOf(struct) == [f \in DOMAIN struct |-> Zero(struct[f].kind)]

(* applyDefaults: pointers keep nil, a string without a value gets one. *)
ApplyDefaults(struct, req) ==
  [f \in DOMAIN struct |->
     IF struct[f].default # Nil /\ struct[f].kind = "string" /\ req[f] = Zero("string")
     THEN struct[f].default ELSE req[f]]

(* normalizeFields: "email" trims and lowers, "trim" trims; the order in a *)
(* tag makes no difference.  setStringTransform leaves nil and "" alone.   *)
Transform(v, norms) ==
  IF v \in {Nil, Plain(Empty)} \/ norms \cap {"email", "trim"} = {} THEN v
  ELSE IF "email" \in norms THEN ToLower(TrimSpace(v)) ELSE TrimSpace(v)

NormalizeFields(struct, req) ==
  [f \in DOMAIN struct |-> Transform(req[f], struct[f].normalize)]

(* The rules of go-playground/validator that the structs use. *)
Satisfies(v, rule) ==
  CASE rule = "required" -> v # Plain(Empty)
    [] rule = "email" -> v.word \in Mailbox /\ ~v.padded
    [] rule = "min=8" -> RuneCount(v) >= 8
    [] rule = "max=255" -> RuneCount(v) <= 255
    [] rule = "omitempty" -> TRUE

ValidStruct(struct, req) ==
  \A f \in DOMAIN struct :
    ("omitempty" \in struct[f].validate => req[f] # Zero(struct[f].kind)) =>
      \A rule \in struct[f].validate : Satisfies(req[f], rule)

(* The struct the handler gets for a body that parsed. *)
Prepared(struct, req) == NormalizeFields(struct, ApplyDefaults(struct, req))
=============================================================================
