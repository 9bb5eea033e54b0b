------------------------------- MODULE SignIn -------------------------------
(***************************************************************************)
(* Signing in (usermanagement, Server): a client sends a block with its    *)
(* user name and password, in pieces of any length, and commands after it. *)
(* The authenticator runs whenever a piece has arrived, and is deleted     *)
(* when it has an answer.  A number takes two elements of the stream and a *)
(* character one, as on the wire; the second element of a number is 0.     *)
(***************************************************************************)
EXTENDS Integers, SequencesExt, FiniteSets

CONSTANTS
  Streams,    \* what the client may send
  Accounts    \* rows of the User table: [name, password, active]

MaxNumber == 65535  \* of a quint16

\* Numbers and characters have 16 bits.
ASSUME StreamsAssumption == Streams \subseteq Seq(0 .. MaxNumber)

VARIABLES
  stream,     \* history: all that the client sends
  wire,       \* what the client has yet to send
  socket,     \* what has arrived and was not read
  blockSize,  \* of the authenticator: 0 until it was read
  signedIn    \* "waiting", "failed", "in" (a Simulator has the socket), or "gone"

signInVars == <<stream, wire, socket, blockSize, signedIn>>

SignInInit == stream \in Streams /\ wire = stream /\ socket = <<>> /\ blockSize = 0 /\ signedIn = "waiting"

\* A number at the head of the stream: 0 if it is not there
NumberAt(bytes) == IF Len(bytes) < 2 THEN 0 ELSE bytes[1]
Rest(bytes, n) == SubSeq(bytes, n + 1, Len(bytes))

\* Database::authenticateUser: exactly one active row
AuthenticateUser(name, password) ==
  Cardinality({a \in Accounts : a.name = name /\ a.password = password /\ a.active}) = 1

\* One of the two texts of a block, with the bytes after it, or none if the format is wrong.
\* The limit is compared as an unsigned number: it is no limit if it would be negative.
ReadText(bytes, fits) ==
  LET size == NumberAt(bytes)
      rest == Rest(bytes, 2)
  IN IF size < 1 \/ ~fits \/ Len(rest) < size THEN {}
     ELSE {[text |-> SubSeq(rest, 1, size - 1), rest |-> Rest(rest, size), size |-> size]}

NameFits(size, block) == block < 4 \/ size <= block - 4
AfterName(size, block) == (block - 2 - size) % 65536
PasswordFits(size, block) == size = block - 2

\* realAuthenticating with the whole block: the answer, and what is left in the socket
Checked(bytes, block) ==
  LET names == ReadText(bytes, NameFits(NumberAt(bytes), block))
      words(n) == ReadText(n.rest, PasswordFits(NumberAt(n.rest), AfterName(n.size, block)))
      both == UNION {{[name |-> n.text, password |-> w.text, rest |-> w.rest] : w \in words(n)} : n \in names}
  IN IF \E b \in both : AuthenticateUser(b.name, b.password)
     THEN [answer |-> "in", rest |-> (CHOOSE b \in both : TRUE).rest]
     ELSE [answer |-> "failed", rest |-> <<>>]

\* Fault: the size of a block that has not arrived is forgotten.
BlockForgotten(bytes, block) == blockSize' = 0 /\ socket' = bytes

\* Nothing more can be read: the size of the block is kept.
BlockAwaited(bytes, block) == blockSize' = block /\ socket' = bytes

\* The rest of the stream belongs to the Simulator of the user, or is never read.
AnswerGiven(c) ==
  signedIn' = c.answer /\ socket' = c.rest /\ blockSize' = 0

\* UserAuthenticator::authenticating, when more has arrived
Authenticating(bytes) ==
  IF blockSize = 0 /\ Len(bytes) < 2 THEN BlockAwaited(bytes, 0) /\ UNCHANGED signedIn
  ELSE LET block == IF blockSize = 0 THEN NumberAt(bytes) ELSE blockSize
           left == IF blockSize = 0 THEN Rest(bytes, 2) ELSE bytes
       IN IF Len(left) < block THEN BlockAwaited(left, block) /\ UNCHANGED signedIn
          ELSE AnswerGiven(Checked(left, block))

PieceArrives ==
  /\ signedIn = "waiting"
  /\ \E n \in 1 .. Len(wire) :
       /\ Authenticating(socket \o SubSeq(wire, 1, n))
       /\ wire' = Rest(wire, n)
  /\ UNCHANGED stream

\* The socket of a user belongs to its Simulator, which reads it from now on.
MoreArrives ==
  /\ signedIn = "in" /\ wire # <<>>
  /\ socket' = socket \o wire /\ wire' = <<>>
  /\ UNCHANGED <<stream, blockSize, signedIn>>

\* The client goes, or authenticationFailed has disconnected it.
Disconnected ==
  /\ signedIn \in {"waiting", "failed"}
  /\ signedIn' = "gone" /\ socket' = <<>> /\ wire' = <<>> /\ blockSize' = 0
  /\ UNCHANGED stream

SignInNext == PieceArrives \/ MoreArrives \/ Disconnected

SignInSpec == SignInInit /\ [][SignInNext]_signInVars
-----------------------------------------------------------------------------
\* The block that starts a stream: the two texts and the bytes after them, if the sizes
\* agree with each other.
WellFormed(bytes) ==
  LET n == bytes[1]  u == bytes[3]
  IN Len(bytes) >= 2 /\ n >= 6 /\ Len(bytes) >= n + 2 /\ u \in 1 .. n - 5
       /\ bytes[5 + u] = n - 4 - u

\* Whether a client is signed in, and which bytes its Simulator then gets, depends on what
\* it sent and not on the pieces in which that arrived.
SignedInAsSent ==
  LET n == stream[1]  u == stream[3]
      ok == /\ WellFormed(stream)
            /\ AuthenticateUser(SubSeq(stream, 5, 3 + u), SubSeq(stream, 7 + u, 1 + n))
  IN /\ signedIn = "in" => ok /\ socket \o wire = Rest(stream, 2 + n)
     /\ signedIn = "failed" => ~ok
=============================================================================
