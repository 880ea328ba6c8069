------------------------------ MODULE MCServer ------------------------------
(* The server for TLC: records, PGNs and devices of every shape that counts. *)
EXTENDS Server, TLC

CONSTANTS wind, product, target, cog, keyed, a, b

\* One record for each shape of handler: what needs its fields, what looks at
\* a reference, what notes the course and speed, what quotes them.
Record(id, ref) == [id |-> id, ok |-> TRUE, ref |-> ref, extra |-> FALSE]
McRecords == {Record("vesselHeading", 1), Record("environmentalParameters", 1),
            Record("cogSogRapidUpdate", 0), Record("gnssPositionData", 0)}

\* PGNs of every way to key, to expire and to serve.
Pgn(fields, repeats, ais, shared, class) == [fields |-> fields, repeats |-> repeats, ais |-> ais, both |-> shared, class |-> class]
McSchema == wind :> Pgn(2, FALSE, FALSE, FALSE, "sensor") @@ product :> Pgn(0, FALSE, FALSE, FALSE, "info")
          @@ target :> Pgn(1, FALSE, TRUE, FALSE, "ais") @@ cog :> Pgn(0, FALSE, FALSE, TRUE, "sensor")
          @@ keyed :> Pgn(2, TRUE, FALSE, FALSE, "sensor")
Rec(p, s, t, i, text) == [pgn |-> p, src |-> s, top |-> t, iters |-> i, text |-> text]
McSnapRecords == {Rec(wind, 1, <<a, b>>, <<>>, 0), Rec(wind, 1, <<a, b>>, <<>>, 1), Rec(wind, 1, <<a, a>>, <<>>, 0),
    Rec(wind, 1, <<a, Absent>>, <<>>, 0), Rec(product, 1, <<>>, <<>>, 0), Rec(target, 2, <<a>>, <<>>, 0),
    Rec(cog, 1, <<>>, <<>>, 0), Rec(keyed, 1, <<a>>, <<a, b>>, 0), Rec(keyed, 1, <<a>>, <<b, Absent>>, 1),
    Rec(keyed, 1, <<a>>, <<>>, 0)}
McTtl == [sensor |-> 1, ais |-> 2, info |-> Forever]

\* Two devices, of which one also tells what it transmits.
McKeys == {[pgn |-> 1, src |-> 1], [pgn |-> PgnList, src |-> 2]}
McRates == {[src |-> 2, pgn |-> 3, off |-> TRUE], [src |-> 1, pgn |-> 1, off |-> FALSE]}
McMuteRows == {[src |-> 1, sentence |-> s] : s \in {0, 1}}
McAdvertised == [src \in {1, 2} |-> {1, 3}]

\* Every configuration of the iKonvert handshake.
McConfigs == [rx_list : BOOLEAN, tx_list : BOOLEAN, rate_limit_off : BOOLEAN, skip_init : BOOLEAN]

\* What the Actisense encoders send: every escape, at every place.
Msg(c, p) == [kind |-> "message", command |-> c, payload |-> p]
Hdr(p)    == [kind |-> "header", command |-> 3, payload |-> p]
McPlain == <<Msg(147, <<16, 3>>), Msg(148, <<0, 27, 16>>), Msg(160, <<>>), Msg(147, <<16, 2, 88>>)>>
McLogged == <<Hdr(<<27, 16, 3, 0, 0, 10, 27, 1>>), Msg(147, <<27, 16>>),
            Hdr(<<1, 2, 16, 27, 4, 5, 6, 7>>), Msg(147, <<16, 2, 27, 10>>), Msg(147, <<0>>)>>
McNoise == {0, 2, 3, 16, 27, 10}

\* What a Maretron says: S is another text, C is CONNECTED, N is NO.
Txt(w) == [kind |-> "text", word |-> w]
S == Txt(<<83>>)
C == Txt(<<67>>)
N == Txt(<<78>>)
Frm(ty, pgn, dst, p) == [kind |-> "frame", prio |-> 5, type |-> ty, pgn |-> pgn, dst |-> dst, src |-> 165,
                         payload |-> p]
\* More than a fast packet holds, and than one byte counts.
Long == [i \in 1 .. 260 |-> IF i % 2 = 0 THEN 165 ELSE i \div 2]
McScripts ==
    {<<S, C, Frm(1, 126976, 255, <<0, 165>>), Txt(<<51, 200>>), Frm(3, 59904, 255, <<51, 0, 7>>), S, Frm(2, 65792, 2, <<>>)>>,
     <<N, Txt(<<83, 99>>)>>,
     <<S, N, C, Frm(1, 65536, 0, <<165, 128>>), C, Frm(2, 130306, 255, <<50>>)>>,
     <<C, Frm(3, 130820, 255, Long), S, Frm(2, 126208, 35, SubSeq(Long, 1, 223))>>}
=============================================================================
