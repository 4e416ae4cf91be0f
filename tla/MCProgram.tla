------------------------------ MODULE MCProgram ------------------------------
EXTENDS Program, TLC

MCText == STRING

\* An unsigned long of the instance wraps at 10000; -9940 comes out as 60.
MCNumber ==
  "0" :> 0 @@ "60" :> 60 @@ "600" :> 600 @@ "601" :> 601 @@ "-1" :> -1
    @@ "-9940" :> -9940 @@ "99999" :> 99999

MCCommandLines ==
  { <<>>, <<"--ascii">>, <<"--version", "--bogus">>, <<"--bogus">>, <<"--offline">>,
    <<"--apply", "--restore">>, <<"--restore", "--wait">>, <<"--diagnostics", "--wait", "601">>,
    <<"--diagnostics", "--wait", "-1">>, <<"--restore", "--wait", "-9940">>,
    <<"--restore", "--wait", "99999">>, <<"--apply", "--wait", "600">>,
    <<"--diagnostics", "--experimental-offline-scan">>,
    <<"--apply", "--experimental-offline-scan">>,
    <<"--enable-startup", "--offline">>, <<"--no-refresh", "--enable-startup">>,
    <<"--enable-startup", "--dry-run">>, <<"--disable-startup">>,
    <<"--quiet", "--disable-startup", "--dry-run">> }

\* The head of a file, in which the lines of two switches are lost.
MCForeign ==
  { SubSeq(Lines([action |-> "enable", on |-> {"server", "refresh", "dry"}]), 1, 7) }

\* load_config reads line by line: what Load says of a file is what is left when
\* each of its lines has had its turn on a menu that reset_walk has cleared, over
\* files of any lines in any order.
ReadLine(v, line) ==
  IF line.symbol \in Actions
  THEN IF line.y THEN [v EXCEPT !.action = line.symbol] ELSE v
  ELSE [v EXCEPT !.on = IF line.y THEN @ \cup {line.symbol} ELSE @ \ {line.symbol}]

SomeLines == [symbol : {"apply", "enable", "server", "dry"}, y : BOOLEAN]

ASSUME LoadReadsLineByLine ==
  \A lines \in BoundedSeq(SomeLines, 4), action \in {"apply", "diagnostics"} :
    LET cleared == [action |-> action, on |-> {}]
    IN  Load(lines, cleared) = FoldLeft(ReadLine, cleared, lines)
==============================================================================
