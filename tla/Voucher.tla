------------------------------- MODULE Voucher -------------------------------
(***************************************************************************)
(* voucher(1) prints the vouchers of a roll with a private key and checks  *)
(* them with the public one. One invocation is a behaviour: it reads key   *)
(* and configuration, then prints ticket by ticket, or checks code by code *)
(* and stops at the first bad one. The arithmetic is the program's, with   *)
(* ByteBits bits in a byte and MaxKeyLen bytes in a u_int64_t.             *)
(***************************************************************************)
EXTENDS Integers, Sequences, SequencesExt

CONSTANTS
    ByteBits,       \* bits of a byte (8)
    MaxKeyLen,      \* MAX_RSA_KEY_LEN, which is also sizeof(u_int64_t)
    MaxCodes,       \* bound: codes on one command line
    Keys,           \* RSA keys: [n, e, d]
    Configs         \* lines of the cfg file: [roll, ticket, check, magic, charset]

VARIABLES
    key, cfg,       \* what the invocation was given
    pc,             \* "load", "ready", "print", "check", or how it ended
    rollid, ticketcount, ticketid,
    out,            \* PRINT: the codes printed; CHECK: the "OK roll ticket" lines
    code            \* CHECK: the last code looked at

vars == <<key, cfg, pc, rollid, ticketcount, ticketid, out, code>>

Byte == 2 ^ ByteBits
Word == 2 ^ (ByteBits * MaxKeyLen)
MAX_VOUCHER_LEN == ByteBits * MaxKeyLen     \* 64: enough for a charset of "01"

Bits(n) == CHOOSE b \in 1..n : 2 ^ (b - 1) <= n /\ n < 2 ^ b

-----------------------------------------------------------------------------
(* The layout: magic, checksum, ticket, roll, most significant first.        *)

crypt_len == Bits(key.n) \div ByteBits
content_bits == cfg.roll + cfg.ticket + cfg.check
voucher_len == 1 + content_bits \div ByteBits
magic_bits == crypt_len * ByteBits - (content_bits + 1)
magic == IF magic_bits > 0 THEN cfg.magic % 2 ^ magic_bits ELSE 0

checksum(roll, ticket) == (ticket + roll) % 2 ^ cfg.check

clearcode(roll, ticket) ==
    LET c == (magic * 2 ^ cfg.check + checksum(roll, ticket)) * 2 ^ cfg.ticket + ticket
    IN  ((c * 2 ^ cfg.roll + roll) % Word) % 2 ^ (ByteBits * crypt_len - 1)

ll2buf(ll, len) == [i \in 1..len |-> (ll \div Byte ^ (len - i)) % Byte]
buf2ll(buf) == FoldLeft(LAMBDA ll, b : (ll * Byte + b) % Word, 0, buf)

\* RSA without padding, for a buffer as long as the modulus and a value below it.
PowMod(x, k, n) ==
    LET p[j \in 0..k] == IF j = 0 THEN 1 ELSE (p[j - 1] * x) % n IN p[k]
CanCrypt(buf) == Len(buf) * ByteBits >= Bits(key.n) /\ buf2ll(buf) < key.n
Sign(buf) == ll2buf(PowMod(buf2ll(buf), key.d, key.n), crypt_len)
Recover(buf) == ll2buf(PowMod(buf2ll(buf), key.e, key.n), crypt_len)

\* The digits in base Len(charset), the least significant first.
Pretty(n) ==
    LET base == Len(cfg.charset)
        digits[v \in 0..n] ==
            IF v = 0 THEN <<>>
            ELSE <<cfg.charset[(v % base) + 1]>> \o digits[v \div base]
    IN  digits[n]

\* The code is read from its end to a blank or to its beginning.
Digits(s) ==
    LET blanks == {i \in 1..Len(s) : s[i] = " "}
        from == IF blanks = {} THEN 1 ELSE 1 + CHOOSE i \in blanks : \A j \in blanks : j <= i
    IN  Reverse(SubSeq(s, from, Len(s)))
Legal(s) == \A i \in 1..Len(Digits(s)) : Digits(s)[i] \in Range(cfg.charset)
strchr(c) == CHOOSE i \in 1..Len(cfg.charset) :
                 cfg.charset[i] = c /\ \A j \in 1..(i - 1) : cfg.charset[j] # c
Number(s) == FoldLeft(LAMBDA n, c : (n * Len(cfg.charset) + strchr(c) - 1) % Word, 0, Digits(s))
cryptbuf(s) == ll2buf(Number(s), crypt_len)

roll_of(clear) == clear % 2 ^ cfg.roll
ticket_of(clear) == (clear \div 2 ^ cfg.roll) % 2 ^ cfg.ticket
checksum_of(clear) == (clear \div 2 ^ (cfg.roll + cfg.ticket)) % 2 ^ cfg.check

\* Mutant: the checks of magic and checksum look at the checksum only.
Genuine_NoMagic(clear) == checksum(roll_of(clear), ticket_of(clear)) = checksum_of(clear)
Genuine(clear) ==
    /\ magic = clear \div 2 ^ content_bits
    /\ checksum(roll_of(clear), ticket_of(clear)) = checksum_of(clear)

-----------------------------------------------------------------------------
Init ==
    /\ key \in Keys /\ cfg \in Configs
    /\ pc = "load" /\ rollid = 0 /\ ticketcount = 0 /\ ticketid = 0
    /\ out = <<>> /\ code = <<>>

\* Key and configuration are read and compared.
Load ==
    /\ pc = "load"
    /\ pc' = CASE crypt_len > MaxKeyLen -> "CRYPT"
               [] Len(cfg.charset) < 2 -> "CFG"
               [] cfg.roll > 31 \/ cfg.ticket > 31 \/ cfg.check > 31 -> "CFG"
               [] voucher_len > crypt_len -> "CFG"
               [] OTHER -> "ready"
    /\ UNCHANGED <<key, cfg, rollid, ticketcount, ticketid, out, code>>

\* voucher -p: print tickets 1..count of a roll.
PrintRoll ==
    /\ pc = "ready"
    /\ \E roll \in 0..(2 ^ cfg.roll), count \in 0..(2 ^ cfg.ticket) :
        IF count >= 2 ^ cfg.ticket \/ count < 1 \/ roll >= 2 ^ cfg.roll
        THEN pc' = "range" /\ UNCHANGED <<rollid, ticketcount, ticketid>>
        ELSE pc' = "print" /\ rollid' = roll /\ ticketcount' = count /\ ticketid' = 1
    /\ UNCHANGED <<key, cfg, out, code>>

PrintTicket ==
    /\ pc = "print"
    /\ LET clearbuf == ll2buf(clearcode(rollid, ticketid), crypt_len)
           text == Pretty(buf2ll(Sign(clearbuf)))
       IN  IF ~CanCrypt(clearbuf)
           THEN pc' = "unsigned" /\ UNCHANGED <<ticketid, out>>
           ELSE IF Len(text) > MAX_VOUCHER_LEN
           THEN pc' = "CFG" /\ UNCHANGED <<ticketid, out>>
           ELSE /\ out' = Append(out, text)
                /\ pc' = IF ticketid < ticketcount THEN "print" ELSE "done"
                /\ ticketid' = ticketid + 1
    /\ UNCHANGED <<key, cfg, rollid, ticketcount, code>>

\* Codes somebody may type: any string of the charset, up to a character longer
\* than the longest voucher, with a blank before it or not; a foreign character.
Texts == UNION {[1..k -> Range(cfg.charset)] : k \in 0..(MAX_VOUCHER_LEN + 1)}
Typed == Texts \cup {<<" ">> \o s : s \in Texts} \cup {<<"?">>}

\* voucher -k: check the next code of the command line; the first bad one ends
\* the program.
Check ==
    /\ pc \in {"ready", "check"} /\ Len(out) < MaxCodes
    /\ code' \in Typed
    /\ LET clear == buf2ll(Recover(cryptbuf(code')))
       IN  IF Legal(code') /\ CanCrypt(cryptbuf(code')) /\ Genuine(clear)
           THEN /\ pc' = "check"
                /\ out' = Append(out, <<roll_of(clear), ticket_of(clear)>>)
           ELSE pc' = "TYPO" /\ UNCHANGED out
    /\ UNCHANGED <<key, cfg, rollid, ticketcount, ticketid>>

Next == Load \/ PrintRoll \/ PrintTicket \/ Check

-----------------------------------------------------------------------------
(* Properties *)

IsDistinct(s) == \A i, j \in 1..Len(s) : s[i] = s[j] => i = j
Accepts(s) == Legal(s) /\ CanCrypt(cryptbuf(s)) /\ Genuine(buf2ll(Recover(cryptbuf(s))))

\* Every voucher that is printed is accepted, as it stands in the printed line
\* with its blank, and gives back its own roll and ticket, if no character
\* occurs twice in the charset; and with a key of whole bytes nothing stops the
\* printing of a roll.
PrintedIsAccepted ==
    pc \in {"print", "done", "unsigned", "CFG"} /\ ticketid > 0 =>
        /\ IsDistinct(cfg.charset) =>
             \A i \in 1..Len(out) :
                LET s == <<" ">> \o out[i]
                    clear == buf2ll(Recover(cryptbuf(s)))
                IN  Accepts(s) /\ roll_of(clear) = rollid /\ ticket_of(clear) = i
        /\ Bits(key.n) % ByteBits = 0 => pc \in {"print", "done"}

\* A code is accepted only if the bytes it stands for are those of the voucher
\* that is printed for the roll and the ticket it is reported as.
AcceptedIsGenuine ==
    pc = "check" =>
        LET o == out[Len(out)]
        IN  /\ o[1] < 2 ^ cfg.roll /\ o[2] < 2 ^ cfg.ticket
            /\ cryptbuf(code) = Sign(ll2buf(clearcode(o[1], o[2]), crypt_len))

\* What is printed is accepted, and nothing else is.
VouchersSound == PrintedIsAccepted /\ AcceptedIsGenuine
=============================================================================
