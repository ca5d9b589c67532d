------------------------------ MODULE HttpClient ------------------------------
(***************************************************************************)
(* The hooks' HTTP client (memgarden-cli http.rs): one connection, one     *)
(* request and one response, between the clocks that bound them and a peer *)
(* that may be slow, that may stop, or that may be another server.         *)
(*                                                                         *)
(* Bytes are counted.  Of a head only the lines that parse_head looks at   *)
(* are there, in their order.  Time passes while a call of the socket      *)
(* blocks, and nowhere else.                                               *)
(***************************************************************************)
EXTENDS Integers, Sequences, SequencesExt

CONSTANTS Urls,        \* daemon_url: [scheme, host, path]
          Replies,     \* what a peer sends: [head: bytes, http: it is a status line,
                       \*   lines: << name, value >> of its headers, body: bytes]
          Expected,    \* the token of daemon.token, NoToken where none is asked for
          NoToken,
          ConnectTime, IoTime, \* Timeouts
          RequestSize, \* bytes of the request
          ReadSize,    \* of the buffer of one read
          MaxHead, MaxResponse \* MAX_HEAD_BYTES, MAX_RESPONSE_BYTES

ASSUME HttpClientAssumption ==
    /\ {ConnectTime, IoTime, RequestSize, ReadSize, MaxHead, MaxResponse} \subseteq Nat \ {0}
    /\ \A r \in Replies : r.head \in Nat /\ r.body \in Nat

VARIABLES url, peer,   \* where the request goes and what will be answered
          step,        \* connect, write, head, body; done
          clock,       \* time since the request began
          unsent,      \* bytes of the request
          got,         \* bytes of the reply
          deadline,    \* when reading ends; 0 before
          outcome      \* Response or HttpError; Pending before

httpVars == << url, peer, step, clock, unsent, got, deadline, outcome >>

Pending == [is |-> "pending", bytes |-> 0]
EndsAs(is, bytes) == step' = "done" /\ outcome' = [is |-> is, bytes |-> bytes]

\* Target::parse
IsTarget(u) ==
    u.scheme = "http" /\ u.host \in {"127.0.0.1", "localhost", "[::1]"} /\ u.path \in {"", "/"}

----------------------------------------------------------------------------
(* Connecting and writing *)

\* connect_timeout, after the address is found good.
Connect ==
    /\ step = "connect"
    /\ \/ ~IsTarget(url) /\ EndsAs("url", 0) /\ UNCHANGED clock
       \/ /\ IsTarget(url)
          /\ \E t \in 0 .. ConnectTime :
                /\ clock' = clock + t
                /\ \/ t < ConnectTime /\ step' = "write" /\ UNCHANGED outcome
                   \/ EndsAs("connect", 0)
    /\ UNCHANGED << url, peer, unsent, got, deadline >>

\* write_all: SO_SNDTIMEO bounds each write.  The deadline is for what follows.
WriteAll ==
    /\ step = "write"
    /\ \/ \E n \in 1 .. unsent, t \in 0 .. IoTime - 1 :
             /\ unsent' = unsent - n /\ clock' = clock + t
             /\ IF n = unsent THEN step' = "head" /\ deadline' = clock' + IoTime
                ELSE UNCHANGED << step, deadline >>
             /\ UNCHANGED outcome
       \/ clock' = clock + IoTime /\ EndsAs("timeout", 0) /\ UNCHANGED << unsent, deadline >>
       \/ EndsAs("io", 0) /\ UNCHANGED << clock, unsent, deadline >>
    /\ UNCHANGED << url, peer, got >>

----------------------------------------------------------------------------
(* Reading *)

Values(name) == {line[2] : line \in {l \in ToSet(peer.lines) : l[1] = name}}

\* presented_token, the last one, is the daemon's.
TokenMatches ==
    \E i \in DOMAIN peer.lines :
       /\ peer.lines[i] = << "token", Expected >>
       /\ \A k \in DOMAIN peer.lines : peer.lines[k][1] = "token" => k <= i

\* parse_head: one length, and the token.
HeadIsGood ==
    /\ peer.http /\ Values("transfer-encoding") = {}
    /\ \E n \in 0 .. MaxResponse : Values("content-length") = {n}
    /\ Expected # NoToken => TokenMatches
ContentLength == CHOOSE n \in 0 .. MaxResponse : Values("content-length") = {n}

\* The socket option alone: each read has the whole time.
MutWholeTime == IoTime
\* tick: what is left until the deadline is set as the timeout of the next read.
TimeLeft == deadline - clock

\* One read of at most `want` bytes: some of what the peer has left, the end of
\* the stream, or nothing in time.
ReadSome(want) ==
    IF TimeLeft <= 0 THEN EndsAs("timeout", 0) /\ UNCHANGED << clock, got >>
    ELSE \/ \E n \in 1 .. want, t \in 0 .. TimeLeft - 1 :
               /\ got + n <= peer.head + peer.body
               /\ got' = got + n /\ clock' = clock + t
               /\ UNCHANGED << step, outcome >>
         \/ \E t \in 0 .. TimeLeft - 1 :
               clock' = clock + t /\ EndsAs("protocol", 0) /\ UNCHANGED got
         \/ clock' = clock + TimeLeft /\ EndsAs("timeout", 0) /\ UNCHANGED got
         \/ EndsAs("io", 0) /\ UNCHANGED << clock, got >>

\* read_response up to the end of the head; a body may have come with it.
ReadHead ==
    /\ step = "head"
    /\ IF got >= peer.head
       THEN /\ IF HeadIsGood THEN step' = "body" /\ UNCHANGED outcome ELSE EndsAs("protocol", 0)
            /\ UNCHANGED << clock, got >>
       ELSE IF got > MaxHead THEN EndsAs("protocol", 0) /\ UNCHANGED << clock, got >>
       ELSE ReadSome(ReadSize)
    /\ UNCHANGED << url, peer, unsent, deadline >>

\* And exactly the rest of the body, whatever the peer sends after it.
ReadBody ==
    /\ step = "body"
    /\ LET left == ContentLength - (got - peer.head) IN
       IF left <= 0 THEN EndsAs("response", ContentLength) /\ UNCHANGED << clock, got >>
       ELSE ReadSome(IF left < ReadSize THEN left ELSE ReadSize)
    /\ UNCHANGED << url, peer, unsent, deadline >>

HttpInit ==
    /\ url \in Urls /\ peer \in Replies
    /\ step = "connect" /\ clock = 0 /\ unsent = RequestSize
    /\ got = 0 /\ deadline = 0 /\ outcome = Pending

HttpNext == Connect \/ WriteAll \/ ReadHead \/ ReadBody
HttpSpec == HttpInit /\ [][HttpNext]_httpVars

----------------------------------------------------------------------------
(* Properties *)

\* A response is whole and its own: every byte of the length that its head
\* states was read and no length is in doubt, and the head carries the token;
\* another server's body is not read past what came with its head.  And however
\* the peer paces its bytes, the answer is read or given up within the time that
\* the caller allows for it once the request is out.
AnsweredInTime ==
    /\ outcome.is = "response" =>
          /\ Values("content-length") = {outcome.bytes}
          /\ got >= peer.head + outcome.bytes /\ outcome.bytes <= peer.body
          /\ Values("transfer-encoding") = {} /\ IsTarget(url)
    /\ step = "body" \/ outcome.is = "response" =>
          Expected = NoToken \/ Expected \in Values("token")
    /\ Expected # NoToken /\ Expected \notin Values("token") => got < peer.head + ReadSize
    /\ got > 0 \/ (step = "done" /\ deadline > 0) => clock <= deadline

\* "which makes the whole request cost at most timeouts.io"
WithinIoTime == clock <= IoTime
=============================================================================
