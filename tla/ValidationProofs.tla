-------------------------- MODULE ValidationProofs --------------------------
(***************************************************************************)
(* What ValidateBody makes of a body, for all words, lengths and spellings *)
(* and not only those a run samples: normalising twice is normalising      *)
(* once, a mailbox has one normal form, and the rules of RegisterRequest   *)
(* and LoginRequest, written down apart, fit each other.                   *)
(***************************************************************************)
EXTENDS Validation, TLAPS

Norms == SUBSET {"email", "trim"}

LEMMA TrimmedLower ==
  ASSUME NEW t \in Text
  PROVE  ToLower(TrimSpace(t)) = Plain(t.word)
<1> DEFINE s == TrimSpace(t)
           v == ToLower(s)
<1>1. s \in Text /\ s.word = t.word /\ s.padded = FALSE
  BY DEF Text, TrimSpace
<1> HIDE DEF s
<1>2. v \in Text /\ v.word = t.word /\ v.padded = FALSE /\ v.upper = FALSE
  BY <1>1 DEF Text, ToLower
<1>3. /\ Plain(t.word) \in Text /\ Plain(t.word).word = t.word
      /\ Plain(t.word).padded = FALSE /\ Plain(t.word).upper = FALSE
  BY DEF Text, Plain
<1> HIDE DEF v
<1>4. v = Plain(t.word)
  BY <1>2, <1>3 DEF Text
<1> QED BY <1>4 DEF v, s

LEMMA PlainFacts ==
  ASSUME NEW w \in Word
  PROVE  /\ Plain(w) \in Text /\ Plain(w).word = w /\ ~Plain(w).padded
         /\ Plain(w) = Plain(Empty) <=> w = Empty
BY WordAssumption DEF Plain, Text

(* The "email" tag maps a text to the normal form of its word. *)
LEMMA EmailTransform ==
  ASSUME NEW t \in Text
  PROVE  Transform(t, {"email"}) = Plain(t.word)
<1>1. t # Nil
  BY NilAssumption
<1>2. CASE t = Plain(Empty)
  <2>1. Plain(Empty).word = Empty
    BY DEF Plain
  <2> QED BY <1>2, <2>1 DEF Transform
<1>3. CASE t # Plain(Empty)
  <2>1. Transform(t, {"email"}) = ToLower(TrimSpace(t))
    BY <1>1, <1>3 DEF Transform
  <2> QED BY <2>1, TrimmedLower
<1> QED BY <1>2, <1>3

(* What the rules of an e-mail field let pass is a mailbox in normal form, *)
(* and every spelling of a mailbox passes.                                 *)
LEMMA NormalForm ==
  ASSUME NEW t \in Text
  PROVE  /\ Satisfies(Transform(t, {"email"}), "email") <=> t.word \in Mailbox
         /\ t.word \in Mailbox => Satisfies(Transform(t, {"email"}), "required")
<1>1. t.word \in Word
  BY DEF Text
<1>2. Transform(t, {"email"}) = Plain(t.word)
  BY EmailTransform
<1>3. Empty \notin Mailbox
  BY WordAssumption
<1> QED BY <1>1, <1>2, <1>3, PlainFacts DEF Satisfies

-----------------------------------------------------------------------------
LEMMA TransformTwice ==
  ASSUME NEW v \in Text \cup {Nil}, NEW norms \in Norms
  PROVE  Transform(Transform(v, norms), norms) = Transform(v, norms)
<1> DEFINE w == Transform(v, norms)
<1>1. CASE v \in {Nil, Plain(Empty)} \/ norms \cap {"email", "trim"} = {}
  BY <1>1 DEF Transform
<1>2. CASE v \notin {Nil, Plain(Empty)} /\ "email" \in norms
  <2>1. v \in Text /\ w = ToLower(TrimSpace(v))
    BY <1>2 DEF Transform
  <2>2. w = Plain(v.word) /\ v.word \in Word
    BY <2>1, TrimmedLower DEF Text
  <2>3. w \in Text /\ w.word = v.word
    BY <2>2, PlainFacts
  <2>4. ToLower(TrimSpace(w)) = w
    BY <2>2, <2>3, TrimmedLower
  <2> HIDE DEF w
  <2>5. Transform(w, norms) = w
    BY <1>2, <2>4 DEF Transform
  <2> QED BY <2>5 DEF w
<1>3. CASE v \notin {Nil, Plain(Empty)} /\ "email" \notin norms /\ "trim" \in norms
  <2>1. v \in Text /\ w = TrimSpace(v)
    BY <1>3 DEF Transform
  <2>2. TrimSpace(TrimSpace(v)) = TrimSpace(v)
    BY <2>1 DEF Text, TrimSpace
  <2>3. Transform(TrimSpace(v), norms) = TrimSpace(v)
    BY <1>3, <2>2 DEF Transform
  <2> QED BY <2>1, <2>3
<1> QED BY <1>1, <1>2, <1>3 DEF Norms

(* validator.go:31-53: a body that went through ValidateBody goes through  *)
(* it unchanged, for every struct without a `default` tag, as all of the   *)
(* application are.  (A default is applied before a blank value is trimmed *)
(* away, so with one a second pass could fill in what the first left "".)  *)
THEOREM PreparedTwice ==
  ASSUME NEW struct, NEW req,
         \A f \in DOMAIN struct : struct[f].default = Nil /\ struct[f].normalize \in Norms,
         \A f \in DOMAIN struct : req[f] \in Text \cup {Nil}
  PROVE  Prepared(struct, Prepared(struct, req)) = Prepared(struct, req)
<1> DEFINE T(r) == [f \in DOMAIN struct |-> Transform(r[f], struct[f].normalize)]
<1>1. \A r : Prepared(struct, r) = T(r)
  BY DEF Prepared, NormalizeFields, ApplyDefaults
<1>2. \A f \in DOMAIN struct : T(T(req))[f] = T(req)[f]
  BY TransformTwice
<1>3. T(T(req)) = T(req)
  BY <1>2
<1> QED BY <1>1, <1>3

(* LoginRequest lets pass every spelling of a mailbox with a password.     *)
LEMMA LoginAccepts ==
  ASSUME NEW w \in [email : Text, password : Text],
         w.email.word \in Mailbox, w.password # Plain(Empty)
  PROVE  LET req == Prepared(LoginRequest, w)
         IN  /\ ValidStruct(LoginRequest, req)
             /\ req = [email |-> Plain(w.email.word), password |-> w.password]
<1> DEFINE req == Prepared(LoginRequest, w)
<1>1. /\ DOMAIN LoginRequest = {"email", "password"}
      /\ LoginRequest["email"] = Field("string", {"required", "email"}, {"email"})
      /\ LoginRequest["password"] = Field("string", {"required"}, {})
  BY DEF LoginRequest
<1>2. \A kind, rules, norms : /\ Field(kind, rules, norms).validate = rules
                              /\ Field(kind, rules, norms).normalize = norms
                              /\ Field(kind, rules, norms).default = Nil
  BY DEF Field
<1>3. req = [f \in {"email", "password"} |-> Transform(w[f], LoginRequest[f].normalize)]
  BY <1>1, <1>2 DEF Prepared, NormalizeFields, ApplyDefaults
<1>4. /\ req["email"] = Transform(w.email, {"email"})
      /\ req["password"] = Transform(w.password, {})
  BY <1>1, <1>2, <1>3
<1>5. Transform(w.password, {}) = w.password
  BY DEF Transform
<1>6. w.email \in Text /\ w.password \in Text
  OBVIOUS
<1>7. Satisfies(req["email"], "required") /\ Satisfies(req["email"], "email")
  BY <1>4, <1>6, NormalForm
<1>8. Satisfies(req["password"], "required")
  BY <1>4, <1>5 DEF Satisfies
<1>9. ValidStruct(LoginRequest, req)
  <2> HIDE DEF req
  <2> QED BY <1>1, <1>2, <1>7, <1>8 DEF ValidStruct
<1>10. req = [email |-> Plain(w.email.word), password |-> w.password]
  BY <1>3, <1>4, <1>5, <1>6, EmailTransform
<1> QED BY <1>9, <1>10

(* What RegisterRequest lets pass. *)
LEMMA RegisterAccepts ==
  ASSUME NEW w, w.email \in Text, w.password \in Text,
         ValidStruct(RegisterRequest, Prepared(RegisterRequest, w))
  PROVE  /\ Prepared(RegisterRequest, w).email = Plain(w.email.word)
         /\ Prepared(RegisterRequest, w).password = w.password
         /\ w.email.word \in Mailbox /\ RuneCount(w.password) >= 8
<1> DEFINE req == Prepared(RegisterRequest, w)
<1>1. /\ DOMAIN RegisterRequest = {"email", "password", "name"}
      /\ RegisterRequest["email"] = Field("string", {"required", "email"}, {"email"})
      /\ RegisterRequest["password"] = Field("string", {"required", "min=8"}, {})
      /\ RegisterRequest["name"] = Field("string", {"omitempty", "max=255"}, {})
  BY DEF RegisterRequest
<1>2. \A kind, rules, norms : /\ Field(kind, rules, norms).validate = rules
                              /\ Field(kind, rules, norms).normalize = norms
                              /\ Field(kind, rules, norms).default = Nil
  BY DEF Field
<1>3. req = [f \in {"email", "password", "name"} |-> Transform(w[f], RegisterRequest[f].normalize)]
  BY <1>1, <1>2 DEF Prepared, NormalizeFields, ApplyDefaults
<1>4. /\ req["email"] = Transform(w.email, {"email"})
      /\ req["password"] = Transform(w.password, {})
  BY <1>1, <1>2, <1>3
<1>5. Transform(w.password, {}) = w.password
  BY DEF Transform
<1>6. Satisfies(req["email"], "email") /\ Satisfies(req["password"], "min=8")
  <2>1. ValidStruct(RegisterRequest, req)
    OBVIOUS
  <2> HIDE DEF req
  <2>2. \A rule \in {"required", "email"} : Satisfies(req["email"], rule)
    BY <1>1, <1>2, <2>1 DEF ValidStruct
  <2>3. \A rule \in {"required", "min=8"} : Satisfies(req["password"], rule)
    BY <1>1, <1>2, <2>1 DEF ValidStruct
  <2> QED BY <2>2, <2>3
<1>7. w.email.word \in Mailbox
  BY <1>4, <1>6, NormalForm
<1>8. RuneCount(w.password) >= 8
  BY <1>4, <1>5, <1>6 DEF Satisfies
<1> QED BY <1>4, <1>5, <1>7, <1>8, EmailTransform

(* A password of 8 characters is not "". *)
LEMMA LongIsNotEmpty ==
  ASSUME NEW t, RuneCount(t) >= 8
  PROVE  t # Plain(Empty)
<1>1. RuneCount(Plain(Empty)) = 0
  BY WordAssumption DEF RuneCount, Blanks, Plain
<1> QED BY <1>1

(* models/auth.go, validator.go:77: with the password of any registration  *)
(* ValidateBody accepts, it accepts the log-in too, in whatever spelling   *)
(* the mailbox is typed, and hands over the very e-mail that was stored.   *)
THEOREM RegisteredMayLogIn ==
  ASSUME NEW w \in [email : Text, password : Text, name : Text],
         ValidStruct(RegisterRequest, Prepared(RegisterRequest, w)),
         NEW t \in Text, t.word = w.email.word
  PROVE  LET req == Prepared(LoginRequest, [email |-> t, password |-> w.password])
         IN  /\ ValidStruct(LoginRequest, req)
             /\ req.email = Prepared(RegisterRequest, w).email
             /\ req.password = Prepared(RegisterRequest, w).password
<1> DEFINE l == [email |-> t, password |-> w.password]
           req == Prepared(LoginRequest, l)
<1>1. w.email \in Text /\ w.password \in Text
  OBVIOUS
<1>2. /\ Prepared(RegisterRequest, w).email = Plain(w.email.word)
      /\ Prepared(RegisterRequest, w).password = w.password
      /\ w.email.word \in Mailbox /\ RuneCount(w.password) >= 8
  BY <1>1, RegisterAccepts
<1>3. w.password # Plain(Empty)
  BY <1>2, LongIsNotEmpty
<1>4. /\ l \in [email : Text, password : Text]
      /\ l.email = t /\ l.password = w.password
  BY <1>1
<1>5. /\ ValidStruct(LoginRequest, req)
      /\ req = [email |-> Plain(t.word), password |-> w.password]
  <2> HIDE DEF l
  <2> QED BY <1>2, <1>3, <1>4, LoginAccepts
<1> QED BY <1>2, <1>5
=============================================================================
