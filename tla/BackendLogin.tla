---------------------------- MODULE BackendLogin ----------------------------
(***************************************************************************)
(* How a connection to a database logs in: Connect, clientHandshake, auth  *)
(* and handleAuthResult of package driver, against a server that may ask   *)
(* for another plugin, accept a cached secret, or want the password        *)
(* encrypted with its public key.  The server is external.                 *)
(***************************************************************************)
EXTENDS Naturals, Sequences

CONSTANTS
  Backends    \* connections of the pool

VARIABLES
  login       \* login[b]: the state of the login of connection b

Plugins == {"mysql_native_password", "mysql_old_password", "mysql_clear_password",
            "caching_sha2_password", "sha256_password"}
Unknown == "other"

Request(kind) == <<kind, "">>     \* what the server was sent
NoProof == Request("none")

(* step:     what the connection does next
   plugin:   the plugin it uses;  switched: after a switch
   account:  the plugin of the account, good: the password is right, cached:
             the server knows the secret;  serverOK: the server let it in
   withDB:   the server takes the schema with the handshake
   wire:     packets from the server;  proof: what it was sent last *)
Fresh == [step |-> "down", plugin |-> "", switched |-> FALSE, account |-> "", good |-> FALSE,
          cached |-> FALSE, withDB |-> TRUE, wire |-> <<>>, proof |-> NoProof, serverOK |-> FALSE]

LoginInit == login = [b \in Backends |-> Fresh]

Up(b) == login[b].step = "up"

(* Three plugins hash the password with the salt, each in its own way. *)
Scramble(plugin) == <<"hash", plugin>>

(* What auth makes of the password for a plugin; sha256_password asks for the
   public key of the server. *)
Auth(plugin) ==
  CASE plugin = "sha256_password" -> Request("keyRequest")
    [] plugin = "mysql_clear_password" -> Request("clear")
    [] plugin = Unknown -> Request("error")
    [] OTHER -> Scramble(plugin)

(* A greeting that ends early names no plugin, which no method matches. *)
Greetings == Plugins \cup {Unknown, "none"}
parseInitialHandshakePacket(p) == IF p = "none" THEN Unknown ELSE p

writeHandshakeResponse41(l) == [l EXCEPT !.step = "result", !.proof = Auth(l.plugin)]

(* The server greets: any plugin, of any account. *)
Connect(b) ==
  /\ login[b].step \in {"down", "failed"}
  /\ \E q \in Greetings, a \in Plugins \cup {Unknown}, g, k, d \in BOOLEAN :
       LET p == parseInitialHandshakePacket(q)
           l == [Fresh EXCEPT !.plugin = p, !.account = a, !.good = g, !.cached = k, !.withDB = d]
       IN  login' = [login EXCEPT ![b] =
             IF Auth(p) = Request("error") THEN [l EXCEPT !.step = "failed"]
             ELSE writeHandshakeResponse41(l)]

(* The server's answer to what it was sent last. *)
Verdict(l) == IF l.good THEN "ok" ELSE "err"
ServerVerifies(b) ==
  LET l == login[b]
      reply == CASE l.proof = Request("publicKey") -> "key"
                 [] l.proof = Request("keyRequest") /\ l.plugin = l.account -> "key"
                 [] l.plugin # l.account -> "switch"
                 [] l.proof = Request("encrypted") -> Verdict(l)
                 [] l.plugin = "caching_sha2_password" /\ l.good /\ l.cached -> "fast"
                 [] l.plugin = "caching_sha2_password" -> "full"
                 [] OTHER -> Verdict(l)
  IN  /\ l.step \in {"result", "secondResult", "readOK", "readKey"}
      /\ l.wire = <<>>
      /\ l.proof # NoProof
      /\ login' = [login EXCEPT ![b].wire = IF reply = "fast" THEN <<"fast", "ok">> ELSE <<reply>>,
                                ![b].proof = NoProof,
                                ![b].serverOK = reply \in {"ok", "fast"}]

Took(b, step, proof) ==
  login' = [login EXCEPT ![b] =
              IF step \in {"up", "failed"} THEN [Fresh EXCEPT !.step = step, !.serverOK = login[b].serverOK]
              ELSE [@ EXCEPT !.wire = Tail(@), !.step = step, !.proof = proof]]

Arrived(b, step, packet) ==
  login[b].step = step /\ login[b].wire # <<>> /\ Head(login[b].wire) = packet

(* A switch is followed once; its second request is a malformed packet. *)
SwitchPlugin(b) ==
  \/ /\ Arrived(b, "result", "switch")
     /\ LET a == login[b].account
        IN  IF Auth(a) = Request("error") THEN Took(b, "failed", NoProof)
            ELSE login' = [login EXCEPT ![b].wire = Tail(@), ![b].step = "secondResult", ![b].switched = TRUE,
                                        ![b].plugin = a, ![b].proof = Auth(a)]
  \/ Arrived(b, "secondResult", "switch") /\ Took(b, "failed", NoProof)

Result(b, packet) == Arrived(b, "result", packet) \/ Arrived(b, "secondResult", packet)

(* The schema is named now if it was not with the handshake. *)
LoggedIn(b) == Took(b, IF login[b].withDB THEN "up" ELSE "initDB", NoProof)

AuthOK(b) == (Result(b, "ok") \/ Arrived(b, "readOK", "ok")) /\ LoggedIn(b)

InitDB(b) ==
  /\ login[b].step = "initDB"
  /\ \E step \in {"up", "failed"} : Took(b, step, NoProof)

(* Authentication failed: the connection is closed. *)
AuthFails(b) ==
  (Result(b, "err") \/ Arrived(b, "readOK", "err")) /\ Took(b, "failed", NoProof)

(* caching_sha2_password: the secret was cached, or the password is asked for;
   without TLS it is encrypted with a key that is requested. *)
FastAuth(b) == Result(b, "fast") /\ Took(b, "readOK", NoProof)
FullAuth(b) == Result(b, "full") /\ Took(b, "readKey", Request("publicKey"))
(* The key of either sha plugin. *)
SendEncryptedPassword(b) ==
  (Result(b, "key") \/ Arrived(b, "readKey", "key")) /\ Took(b, "readOK", Request("encrypted"))

LoginStep(b) ==
  \/ ServerVerifies(b) \/ SwitchPlugin(b) \/ AuthOK(b) \/ AuthFails(b)
  \/ InitDB(b) \/ FastAuth(b) \/ FullAuth(b) \/ SendEncryptedPassword(b)
=============================================================================
