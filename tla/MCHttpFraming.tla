--------------------------- MODULE MCHttpFraming ----------------------------
(* Replies for TLC: no body, one that looks like a last chunk, one of       *)
(* several chunks, and one whose sizes have two digits; with any header.    *)
EXTENDS HttpFraming

MCPayloads == {
  <<>>,
  << <<5>> >>,
  << <<0, NL, NL>>, <<3>> >>,
  << <<1, NL>>, <<NL, 0, NL, NL>>, <<NL>> >>,
  << <<0, NL, NL, 4, 5, 6, 7, 8, 9, 1, 0, NL, NL, 0, NL, NL, 15>>, <<1, 2, 3>> >> }

\* Header lines.
MCOrders == {
  <<"TE">>, <<"other", "TE">>, <<"TE", "other">>, <<"CL", "other">>,
  <<"other", "CL", "other">>, <<"CL", "TE">>, <<"other">>, <<"other", "CL">>,
  <<"Tight">>, <<"Tight", "other">> }

Digits(base, n) == IF n < base THEN <<n>> ELSE <<n \div base, n % base>>

Line(name, length) ==
  CASE name = "TE"    -> <<TE, NL>>
    [] name = "Tight" -> <<Tight, NL>>
    [] name = "CL"    -> <<CL>> \o Digits(10, length) \o <<NL>>
    [] name = "other" -> <<Other, NL>>
Chunk(c) == Digits(16, Len(c)) \o <<NL>> \o c \o <<NL>>

\* Where the chunks lie, and what each of them carries.
Places(chunks) ==
  LET place[k \in 0..Len(chunks)] ==
        IF k = 0 THEN [at |-> 0, eol |-> 0, size |-> 0, off |-> 0]
        ELSE LET before == place[k - 1]
                 at == IF k = 1 THEN 1 ELSE before.eol + before.size + 2
             IN  [at |-> at, eol |-> at + Len(Digits(16, Len(chunks[k]))),
                  size |-> Len(chunks[k]), off |-> before.off + before.size]
  IN  [k \in DOMAIN chunks |-> place[k]]

MCReply(order, payload) ==
  LET data == FlattenSeq(payload)
      header == <<Other, NL>> \o FlattenSeq([i \in DOMAIN order |-> Line(order[i], Len(data))])
      chunked == Contains(order, "TE") \/ Contains(order, "Tight")
      chunks == IF chunked THEN Append(payload, <<>>) ELSE <<>>
      body == IF chunked
              THEN FlattenSeq([k \in DOMAIN chunks |-> Chunk(chunks[k])])
              ELSE data
  IN  [bytes |-> header \o <<NL>> \o body, head |-> Len(header),
       chunks |-> Places(chunks), payload |-> data]

MCReplies == {MCReply(order, payload) : order \in MCOrders, payload \in MCPayloads}
=============================================================================
