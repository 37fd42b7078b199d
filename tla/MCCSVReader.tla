---------------------------- MODULE MCCSVReader ----------------------------
(* The reader on every short line, and on files of whole rows.  The characters
   are the separator, the point, the digits 0 and 7, and a letter. *)
EXTENDS CSVReader

Characters == {Comma, Point, Zero, 55, 97}
ShortLines == UNION {[1..n -> Characters] : n \in 0..5}

\* time,2,side,price,amount
Row(time, side, price, amount) ==
    <<time, Comma, 50, Comma>> \o side \o <<Comma>> \o price \o <<Comma>> \o amount

Seven == <<55>>
Half == <<48, Point, 53>>
Spare == <<48, Point, 55, Point, 52>>   \* 0.7.4
Twice == <<48, Point, 48, Point, 55, Point, 52>>
Word == <<97, 55>>

Good == Row(49, Ask, Half, Seven)
Later == Row(50, Bid, Seven, Half)
Rows ==
    {Good, Later, Row(49, <<99>>, Seven, Seven), Row(50, Ask, Half, Spare),
     Row(49, Bid, Spare, Spare), Row(49, Bid, Seven, Twice), Row(50, Ask, Word, Seven),
     Row(50, Ask, <<>>, Seven), Row(49, Ask, Seven, <<>>), Good \o <<Comma>>,
     Good \o <<Comma, 55>>, <<Comma>> \o Later, <<Comma, Comma, Comma>>}

MCFiles == {<<l>> : l \in ShortLines} \cup {<<>>}
           \cup {<<k, l>> : k \in Rows, l \in Rows}
           \cup {<<Later, l, Good>> : l \in Rows}
=============================================================================
