------------------------------- MODULE StunMessage -------------------------------
(***************************************************************************)
(* The connectivity checks of ICE, as StunMessage parses and answers them  *)
(* (stun_message.cpp), and as a client builds and verifies them (RFC 5389, *)
(* RFC 8445).  A message is its header and its attributes, of which the    *)
(* lengths count; a digest is the record of what it was computed over, so  *)
(* that equal digests are digests of the same bytes under the same key.    *)
(***************************************************************************)
EXTENDS Integers, Sequences, SequencesExt

kStunHeaderSize == 20
kStunAttributeHeaderSize == 4
kFingerprintAttrLength == 4
kSha1ResultLength == 20

(* Lengths are uint16_t; values are padded to words. *)
Padded(length) == (length + ((4 - (length % 4)) % 4)) % 65536

Attribute(kind, length, value) == [kind |-> kind, length |-> length, value |-> value]

AddAttribute(sum, a) == sum + kStunAttributeHeaderSize + Padded(a.length)
AttributeBytes(attrs) == FoldLeft(AddAttribute, 0, attrs)

Size(m) == kStunHeaderSize + AttributeBytes(m.attrs)

Hmac(password, m, length, before) ==
  [hmac |-> password, type |-> m.type, tid |-> m.tid, length |-> length, before |-> before]

Crc(m, length, before) ==
  [crc |-> TRUE, type |-> m.type, tid |-> m.tid, length |-> length, before |-> before]

Before(m, i) == SubSeq(m.attrs, 1, i - 1)
Positions(m, kind) == {i \in DOMAIN m.attrs : m.attrs[i].kind = kind}
Has(m, kind) == Positions(m, kind) # {}

-----------------------------------------------------------------------------
(* Bugs the properties have to catch: the length of the header is taken as *)
(* it is, with FINGERPRINT; the response is digested with all its length.  *)
IntegrityLengthAsIs(m) == m.length
ResponseIntegrityLengthAll == 12 + 24 + 8

(* The length that MESSAGE-INTEGRITY was computed with: FINGERPRINT comes  *)
(* after it, and is not counted.                                           *)
IntegrityLength(m) ==
  IF Has(m, "FINGERPRINT")
  THEN Size(m) - kStunHeaderSize - kFingerprintAttrLength - kStunAttributeHeaderSize
  ELSE m.length

(* A bug the properties have to catch: the digest is not compared.         *)
ParseUnsigned(m, c) ==
  /\ m.whole
  /\ \A i \in Positions(m, "USERNAME") :
       /\ IsPrefix(c.local_ufrag, m.attrs[i].value)
       /\ IsSuffix(c.remote_ufrag, m.attrs[i].value)
  /\ ~Has(m, "ICE-CONTROLLED")

(* Parse, for the credentials c of an IceLite; m.whole is FALSE when the   *)
(* datagram ends inside an attribute.  An attribute that the switch does   *)
(* not name is passed over; the last of several MESSAGE-INTEGRITYs counts. *)
Parse(m, c) ==
  /\ m.whole
  /\ \A i \in Positions(m, "USERNAME") :
       /\ IsPrefix(c.local_ufrag, m.attrs[i].value)
       /\ IsSuffix(c.remote_ufrag, m.attrs[i].value)
  /\ \A i \in Positions(m, "FINGERPRINT") :
       m.attrs[i].value = Crc(m, m.length, Before(m, i))
  /\ ~Has(m, "ICE-CONTROLLED")
  /\ Has(m, "MESSAGE-INTEGRITY") =>
       LET i == Max(Positions(m, "MESSAGE-INTEGRITY"))
       IN  m.attrs[i].value = Hmac(c.local_password, m, IntegrityLength(m), Before(m, i))

HasUseCandidate(m) == Has(m, "USE-CANDIDATE")

ResponseIntegrityLength == 12 + 24

(* CreateResponse.  For an address that is not IPv4 there is no attribute, *)
(* yet the lengths and the buffer are those of a message that has one.     *)
CreateResponse(tid, address, c) ==
  LET header == [type |-> "BindingResponse", tid |-> tid]
      mapped == IF address.v4 THEN <<Attribute("XOR-MAPPED-ADDRESS", 8, address)>> ELSE <<>>
      signed == Append(mapped, Attribute("MESSAGE-INTEGRITY", kSha1ResultLength,
                  Hmac(c.local_password, header, ResponseIntegrityLength, mapped)))
  IN  [type |-> header.type, tid |-> tid, length |-> 12 + 24 + 8,
       whole |-> address.v4,
       attrs |-> Append(signed, Attribute("FINGERPRINT", kFingerprintAttrLength,
                   Crc(header, 12 + 24 + 8, signed)))]

-----------------------------------------------------------------------------
(* The reference: a client's message with the attributes of body, signed   *)
(* with the password it was given, with or without FINGERPRINT.            *)
Signed(type, tid, body, password, fingerprint) ==
  LET header == [type |-> type, tid |-> tid]
      signed == Append(body, Attribute("MESSAGE-INTEGRITY", kSha1ResultLength,
                  Hmac(password, header, AttributeBytes(body) + 24, body)))
      length == AttributeBytes(signed) + IF fingerprint THEN 8 ELSE 0
  IN  [type |-> type, tid |-> tid, length |-> length, whole |-> TRUE,
       attrs |-> IF fingerprint
                 THEN Append(signed, Attribute("FINGERPRINT", kFingerprintAttrLength,
                                               Crc(header, length, signed)))
                 ELSE signed]

(* What arrives of a message of which only the first n attributes do, and  *)
(* perhaps a part of the next.                                             *)
Cut(m, n, whole) == [m EXCEPT !.attrs = SubSeq(m.attrs, 1, n), !.whole = whole]

(* A client takes the response to its check: it is what the server would   *)
(* sign for the client's transaction and address.                          *)
Verified(m, tid, address, password) ==
  m = Signed("BindingResponse", tid, <<Attribute("XOR-MAPPED-ADDRESS", 8, address)>>,
             password, TRUE)
=============================================================================
