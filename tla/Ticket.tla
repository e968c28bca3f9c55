------------------------------- MODULE Ticket -------------------------------
(***************************************************************************)
(* Signed tickets of src/src/lib.rs.  A signature is the pair of the key   *)
(* that made it and the claims it was made over; a signature that is not   *)
(* base64 is one by NoKey.  relay_url, alpn, issued_at and the nonce are   *)
(* carried along by the code and compared with nothing; they are left out. *)
(***************************************************************************)
EXTENDS Integers

CONSTANTS
    Keys,     \* Ed25519 keys, and the NodeId that each of them is
    NoKey,    \* stands for the signer of an undecodable signature
    MaxI64    \* the largest i64

ASSUME TicketAssumption == NoKey \notin Keys /\ MaxI64 \in Nat

TICKET_VERSION == 1

I64 == -MaxI64 - 1 .. MaxI64

TicketClaims == [version : Nat, issuer : Keys, subject : Keys, expires_at : I64]

sign_ticket(claims, key) ==
    [claims |-> claims, signature |-> [key |-> key, payload |-> claims]]

(* Mutant of wrap: the sum is taken for unsigned. *)
wrap_unsigned(x) == x % (2 * (MaxI64 + 1))

(* What a sum of i64 leaves in a build without overflow checks. *)
wrap(x) == ((x + MaxI64 + 1) % (2 * (MaxI64 + 1))) - (MaxI64 + 1)

overflows(x) == wrap(x) # x

issue_ticket(key, subject, ttl_seconds, now) ==
    sign_ticket([version    |-> TICKET_VERSION,
                 issuer     |-> key,
                 subject    |-> subject,
                 expires_at |-> wrap(now + ttl_seconds)], key)

(* Mutant of verify_ticket: the expiry is checked after the signature, a   *)
(* second late.                                                            *)
verify_ticket_late(ticket, key, now) ==
    IF ticket.claims.version # TICKET_VERSION THEN "UnsupportedVersion"
    ELSE IF ticket.signature.key = NoKey THEN "InvalidSignatureEncoding"
    ELSE IF ticket.signature # [key |-> key, payload |-> ticket.claims] THEN "InvalidSignature"
    ELSE IF now > ticket.claims.expires_at + 1 THEN "Expired"
    ELSE "Ok"

(* The first check that fails decides; the second of expires_at is valid. *)
verify_ticket(ticket, key, now) ==
    IF ticket.claims.version # TICKET_VERSION THEN "UnsupportedVersion"
    ELSE IF now > ticket.claims.expires_at THEN "Expired"
    ELSE IF ticket.signature.key = NoKey THEN "InvalidSignatureEncoding"
    ELSE IF ticket.signature # [key |-> key, payload |-> ticket.claims] THEN "InvalidSignature"
    ELSE "Ok"

=============================================================================
