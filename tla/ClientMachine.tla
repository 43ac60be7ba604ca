--------------------------- MODULE ClientMachine ---------------------------
(***************************************************************************)
(* The machine of httpclient_parser.rl.cc: one block for each stretch of the  *)
(* switch in httpclient_parser_execute, in the notation of HttpMachine.       *)
(***************************************************************************)
EXTENDS ClientGrammar

St1_Tr4 ==
  [tr |-> 0 :> Do(<<"mark">>, 2) @@ 3 :> Do(<<"chunk_size", "done">>, 120)
         @@ 7 :> Do(<<"done">>, 120)
         @@ 9 :> Do(<<"write_field", "start_value", "write_value", "done">>, 120)
         @@ 15 :> Do(<<"write_value", "done">>, 120)
         @@ 74 :> Do(<<"write_connection_close", "done">>, 120) @@ 4 :> Do(<<"chunk_size">>, 3),
   st |-> 1 :> (xdigit :> tr(0) @@ {"H"} :> tr(2))
       @@ 0 :> Stuck
       @@ 2 :> (xdigit :> st(2) @@ {"LF"} :> tr(3) @@ {"CR"} :> tr(4) @@ {";"} :> tr(6))
       @@ 120 :> Stuck]

Tr10_Tr13 ==
  [tr |-> 10 :> Do(<<"write_field", "start_value", "write_value">>, 3)
         @@ 16 :> Do(<<"write_value">>, 3) @@ 75 :> Do(<<"write_connection_close">>, 3)
         @@ 6 :> Do(<<"chunk_size">>, 4)
         @@ 12 :> Do(<<"write_field", "start_value", "write_value">>, 4)
         @@ 18 :> Do(<<"write_value">>, 4) @@ 8 :> Do(<<"start_field">>, 5)
         @@ 13 :> Do(<<"write_field", "start_value">>, 6),
   st |-> 3 :> ({"LF"} :> tr(7))
       @@ 4 :> (token :> tr(8))
       @@ 5 :> (token :> st(5) @@ {"LF"} :> tr(9) @@ {"CR"} :> tr(10) @@ {";"} :> tr(12)
                @@ {"="} :> tr(13))]

St6_Tr27 ==
  [tr |-> 14 :> Do(<<"start_value">>, 7) @@ 2 :> Do(<<"mark">>, 8)
         @@ 26 :> Do(<<"http_version">>, 16) @@ 27 :> Do(<<"mark">>, 17),
   st |-> 6 :> (token :> tr(14))
       @@ 7 :> (token :> st(7) @@ {"LF"} :> tr(15) @@ {"CR"} :> tr(16) @@ {";"} :> tr(18))
       @@ 8 :> ({"T"} :> st(9))
       @@ 9 :> ({"T"} :> st(10))
       @@ 10 :> ({"P"} :> st(11))
       @@ 11 :> ({"/"} :> st(12))
       @@ 12 :> ({"0"} :> st(13))
       @@ 13 :> ({"."} :> st(14) @@ {"0"} :> st(13))
       @@ 14 :> ({"0"} :> st(15))
       @@ 15 :> ({"SP"} :> tr(26) @@ {"0"} :> st(15))
       @@ 16 :> ({"0"} :> tr(27))]

St17_Tr76 ==
  [tr |-> 28 :> Do(<<"status_code">>, 18) @@ 30 :> Do(<<"mark">>, 19)
         @@ 45 :> Do(<<"write_value">>, 20) @@ 32 :> Do(<<"reason_phrase">>, 20)
         @@ 42 :> Do(<<"start_value", "write_value">>, 20)
         @@ 111 :> Do(<<"write_value", "trans_chunked">>, 20)
         @@ 113 :> Do(<<"trans_chunked">>, 20)
         @@ 158 :> Do(<<"write_content_len", "write_value">>, 20)
         @@ 35 :> Do(<<"start_field">>, 21)
         @@ 76 :> Do(<<"write_connection_close", "start_field">>, 21),
   st |-> 17 :> ({"SP"} :> tr(28) @@ {"0"} :> st(17))
       @@ 18 :> ((token \cup {"/", ":", ";", "=", "CR", "HT", "SP", "other"}) :> tr(30))
       @@ 19 :> ((token \cup {"/", ":", ";", "=", "HT", "SP", "other"}) :> st(19)
                @@ {"LF"} :> tr(32) @@ {"CR"} :> tr(33))
       @@ 20 :> ((token \ {"C", "T", "t"}) :> tr(35) @@ {"T", "t"} :> tr(37) @@ {"LF"} :> tr(7)
                @@ {"CR"} :> st(3) @@ {"C"} :> tr(36))]

St21_Tr77 ==
  [tr |-> 41 :> Do(<<"start_value">>, 22) @@ 39 :> Do(<<"write_field">>, 22)
         @@ 40 :> Do(<<"start_value">>, 23) @@ 46 :> Do(<<"write_value">>, 24)
         @@ 33 :> Do(<<"reason_phrase">>, 24) @@ 43 :> Do(<<"start_value", "write_value">>, 24)
         @@ 159 :> Do(<<"write_content_len", "write_value">>, 24)
         @@ 36 :> Do(<<"start_field">>, 25)
         @@ 77 :> Do(<<"write_connection_close", "start_field">>, 25),
   st |-> 21 :> (token :> st(21) @@ {":"} :> tr(39))
       @@ 22 :> ((token \cup {"/", ":", ";", "=", "other"}) :> tr(40) @@ {"HT", "SP"} :> tr(41)
                @@ {"LF"} :> tr(42) @@ {"CR"} :> tr(43))
       @@ 23 :> ((token \cup {"/", ":", ";", "=", "HT", "SP", "other"}) :> st(23)
                @@ {"LF"} :> tr(45) @@ {"CR"} :> tr(46))
       @@ 24 :> ({"LF"} :> st(20))]

St25_St28 ==
  [tr |-> None,
   st |-> 25 :> ((token \ {"O"}) :> st(21) @@ {":"} :> tr(39) @@ {"O"} :> st(26))
       @@ 26 :> ((token \ {"N"}) :> st(21) @@ {":"} :> tr(39) @@ {"N"} :> st(27))
       @@ 27 :> ((token \ {"N", "T", "t"}) :> st(21) @@ {"T", "t"} :> st(101) @@ {":"} :> tr(39)
                @@ {"N"} :> st(28))
       @@ 28 :> ((token \ {"E"}) :> st(21) @@ {":"} :> tr(39) @@ {"E"} :> st(29))]

St29_St33 ==
  [tr |-> None,
   st |-> 29 :> ((token \ {"C"}) :> st(21) @@ {":"} :> tr(39) @@ {"C"} :> st(30))
       @@ 30 :> ((token \ {"T", "t"}) :> st(21) @@ {"T", "t"} :> st(31) @@ {":"} :> tr(39))
       @@ 31 :> ((token \ {"I"}) :> st(21) @@ {":"} :> tr(39) @@ {"I"} :> st(32))
       @@ 32 :> ((token \ {"O"}) :> st(21) @@ {":"} :> tr(39) @@ {"O"} :> st(33))
       @@ 33 :> ((token \ {"N"}) :> st(21) @@ {":"} :> tr(39) @@ {"N"} :> st(34))]

St34_St41 ==
  [tr |-> 59 :> Do(<<"start_value">>, 35) @@ 58 :> Do(<<"write_field">>, 35)
         @@ 60 :> Do(<<"start_value", "write_value">>, 36),
   st |-> 34 :> (token :> st(21) @@ {":"} :> tr(58))
       @@ 35 :> (((token \ {"C"}) \cup {"/", ":", ";", "=", "other"}) :> tr(40)
                @@ {"HT", "SP"} :> tr(59) @@ {"LF"} :> tr(60) @@ {"CR"} :> tr(61)
                @@ {"C"} :> tr(62))
       @@ 36 :> ((token \ {"C", "T", "t"}) :> tr(35) @@ {"HT", "SP"} :> st(37)
                @@ {"T", "t"} :> tr(37) @@ {"LF"} :> tr(64) @@ {"CR"} :> st(89)
                @@ {"C"} :> tr(66))
       @@ 37 :> (space :> st(37) @@ {"C"} :> st(38))
       @@ 38 :> ({"L"} :> st(39))
       @@ 39 :> ({"O"} :> st(40))
       @@ 40 :> ({"S"} :> st(41))
       @@ 41 :> ({"E"} :> st(42))]

St42_St45 ==
  [tr |-> 136 :> Do(<<"write_value">>, 43) @@ 37 :> Do(<<"start_field">>, 44)
         @@ 78 :> Do(<<"write_connection_close", "start_field">>, 44),
   st |-> 42 :> ({"LF"} :> st(43) @@ {"CR"} :> st(88))
       @@ 43 :> ((token \ {"C", "T", "t"}) :> tr(76) @@ {"T", "t"} :> tr(78) @@ {"LF"} :> tr(74)
                @@ {"CR"} :> tr(75) @@ {"C"} :> tr(77))
       @@ 44 :> ((token \ {"R"}) :> st(21) @@ {":"} :> tr(39) @@ {"R"} :> st(45))
       @@ 45 :> ((token \ {"A"}) :> st(21) @@ {":"} :> tr(39) @@ {"A"} :> st(46))]

St46_St50 ==
  [tr |-> None,
   st |-> 46 :> ((token \ {"N"}) :> st(21) @@ {":"} :> tr(39) @@ {"N"} :> st(47))
       @@ 47 :> ((token \ {"S"}) :> st(21) @@ {":"} :> tr(39) @@ {"S"} :> st(48))
       @@ 48 :> ((token \ {"F"}) :> st(21) @@ {":"} :> tr(39) @@ {"F"} :> st(49))
       @@ 49 :> ((token \ {"E"}) :> st(21) @@ {":"} :> tr(39) @@ {"E"} :> st(50))
       @@ 50 :> ((token \ {"R"}) :> st(21) @@ {":"} :> tr(39) @@ {"R"} :> st(51))]

St51_St55 ==
  [tr |-> None,
   st |-> 51 :> ((token \ {"-"}) :> st(21) @@ {"-"} :> st(52) @@ {":"} :> tr(39))
       @@ 52 :> ((token \ {"E"}) :> st(21) @@ {":"} :> tr(39) @@ {"E"} :> st(53))
       @@ 53 :> ((token \ {"N"}) :> st(21) @@ {":"} :> tr(39) @@ {"N"} :> st(54))
       @@ 54 :> ((token \ {"C"}) :> st(21) @@ {":"} :> tr(39) @@ {"C"} :> st(55))
       @@ 55 :> ((token \ {"O"}) :> st(21) @@ {":"} :> tr(39) @@ {"O"} :> st(56))]

St56_St60 ==
  [tr |-> None,
   st |-> 56 :> ((token \ {"D"}) :> st(21) @@ {":"} :> tr(39) @@ {"D"} :> st(57))
       @@ 57 :> ((token \ {"I"}) :> st(21) @@ {":"} :> tr(39) @@ {"I"} :> st(58))
       @@ 58 :> ((token \ {"N"}) :> st(21) @@ {":"} :> tr(39) @@ {"N"} :> st(59))
       @@ 59 :> ((token \ {"G"}) :> st(21) @@ {":"} :> tr(39) @@ {"G"} :> st(60))
       @@ 60 :> (token :> st(21) @@ {":"} :> tr(95))]

Tr96_St69 ==
  [tr |-> 96 :> Do(<<"start_value">>, 61) @@ 95 :> Do(<<"write_field">>, 61)
         @@ 97 :> Do(<<"start_value", "write_value">>, 62) @@ 104 :> Do(<<"start_value">>, 64),
   st |-> 61 :> (((token \ {"C"}) \cup {"/", ":", ";", "=", "other"}) :> tr(40)
                @@ {"HT", "SP"} :> tr(96) @@ {"LF"} :> tr(97) @@ {"CR"} :> tr(98)
                @@ {"C"} :> tr(99))
       @@ 62 :> ((token \ {"C", "T", "t"}) :> tr(35) @@ {"HT", "SP"} :> st(63)
                @@ {"T", "t"} :> tr(37) @@ {"LF"} :> tr(101) @@ {"CR"} :> st(72)
                @@ {"C"} :> tr(103))
       @@ 63 :> (space :> st(63) @@ {"C"} :> tr(104))
       @@ 64 :> ({"H", "h"} :> st(65))
       @@ 65 :> ({"U"} :> st(66))
       @@ 66 :> ({"N"} :> st(67))
       @@ 67 :> ({"K"} :> st(68))
       @@ 68 :> ({"E"} :> st(69))
       @@ 69 :> ({"D"} :> st(70))]

St70_St74 ==
  [tr |-> 112 :> Do(<<"write_value">>, 71) @@ 101 :> Do(<<"done">>, 121)
         @@ 103 :> Do(<<"start_value", "start_field">>, 73),
   st |-> 70 :> ({"LF"} :> tr(111) @@ {"CR"} :> tr(112))
       @@ 71 :> ({"LF"} :> tr(113))
       @@ 121 :> (space :> st(63) @@ {"C"} :> tr(104))
       @@ 72 :> ((space \ {"LF"}) :> st(63) @@ {"LF"} :> tr(101) @@ {"C"} :> tr(104))
       @@ 73 :> ((token \ {"H", "O", "h"}) :> st(21) @@ {"H", "h"} :> st(74) @@ {":"} :> tr(39)
                @@ {"O"} :> st(26))
       @@ 74 :> ((token \ {"U"}) :> st(21) @@ {":"} :> tr(39) @@ {"U"} :> st(75))]

St75_St79 ==
  [tr |-> None,
   st |-> 75 :> ((token \ {"N"}) :> st(21) @@ {":"} :> tr(39) @@ {"N"} :> st(76))
       @@ 76 :> ((token \ {"K"}) :> st(21) @@ {":"} :> tr(39) @@ {"K"} :> st(77))
       @@ 77 :> ((token \ {"E"}) :> st(21) @@ {":"} :> tr(39) @@ {"E"} :> st(78))
       @@ 78 :> ((token \ {"D"}) :> st(21) @@ {":"} :> tr(39) @@ {"D"} :> st(79))
       @@ 79 :> (token :> st(21) @@ {"LF"} :> tr(111) @@ {"CR"} :> tr(112) @@ {":"} :> tr(39))]

Tr98_St122 ==
  [tr |-> 98 :> Do(<<"start_value", "write_value">>, 80) @@ 99 :> Do(<<"start_value">>, 81)
         @@ 137 :> Do(<<"write_value">>, 88) @@ 64 :> Do(<<"done">>, 122),
   st |-> 80 :> ((space \ {"LF"}) :> st(63) @@ {"LF"} :> st(62) @@ {"C"} :> tr(104))
       @@ 81 :> (((token \ {"H", "h"}) \cup {"/", ":", ";", "=", "HT", "SP", "other"}) :> st(23)
                @@ {"H", "h"} :> st(82) @@ {"LF"} :> tr(45) @@ {"CR"} :> tr(46))
       @@ 82 :> (((token \ {"U"}) \cup {"/", ":", ";", "=", "HT", "SP", "other"}) :> st(23)
                @@ {"LF"} :> tr(45) @@ {"CR"} :> tr(46) @@ {"U"} :> st(83))
       @@ 83 :> (((token \ {"N"}) \cup {"/", ":", ";", "=", "HT", "SP", "other"}) :> st(23)
                @@ {"LF"} :> tr(45) @@ {"CR"} :> tr(46) @@ {"N"} :> st(84))
       @@ 84 :> (((token \ {"K"}) \cup {"/", ":", ";", "=", "HT", "SP", "other"}) :> st(23)
                @@ {"LF"} :> tr(45) @@ {"CR"} :> tr(46) @@ {"K"} :> st(85))
       @@ 85 :> (((token \ {"E"}) \cup {"/", ":", ";", "=", "HT", "SP", "other"}) :> st(23)
                @@ {"LF"} :> tr(45) @@ {"CR"} :> tr(46) @@ {"E"} :> st(86))
       @@ 86 :> (((token \ {"D"}) \cup {"/", ":", ";", "=", "HT", "SP", "other"}) :> st(23)
                @@ {"LF"} :> tr(45) @@ {"CR"} :> tr(46) @@ {"D"} :> st(87))
       @@ 87 :> ((token \cup {"/", ":", ";", "=", "HT", "SP", "other"}) :> st(23)
                @@ {"LF"} :> tr(111) @@ {"CR"} :> tr(112))
       @@ 88 :> ({"LF"} :> st(43))
       @@ 122 :> (space :> st(37) @@ {"C"} :> st(38))]

St89_St93 ==
  [tr |-> 66 :> Do(<<"start_field">>, 90),
   st |-> 89 :> ((space \ {"LF"}) :> st(37) @@ {"LF"} :> tr(64) @@ {"C"} :> st(38))
       @@ 90 :> ((token \ {"L", "O"}) :> st(21) @@ {":"} :> tr(39) @@ {"L"} :> st(91)
                @@ {"O"} :> st(26))
       @@ 91 :> ((token \ {"O"}) :> st(21) @@ {":"} :> tr(39) @@ {"O"} :> st(92))
       @@ 92 :> ((token \ {"S"}) :> st(21) @@ {":"} :> tr(39) @@ {"S"} :> st(93))
       @@ 93 :> ((token \ {"E"}) :> st(21) @@ {":"} :> tr(39) @@ {"E"} :> st(94))]

St94_St101 ==
  [tr |-> 61 :> Do(<<"start_value", "write_value">>, 95) @@ 62 :> Do(<<"start_value">>, 96),
   st |-> 94 :> (token :> st(21) @@ {"LF"} :> st(43) @@ {"CR"} :> st(88) @@ {":"} :> tr(39))
       @@ 95 :> ((space \ {"LF"}) :> st(37) @@ {"LF"} :> st(36) @@ {"C"} :> st(38))
       @@ 96 :> (((token \ {"L"}) \cup {"/", ":", ";", "=", "HT", "SP", "other"}) :> st(23)
                @@ {"LF"} :> tr(45) @@ {"CR"} :> tr(46) @@ {"L"} :> st(97))
       @@ 97 :> (((token \ {"O"}) \cup {"/", ":", ";", "=", "HT", "SP", "other"}) :> st(23)
                @@ {"LF"} :> tr(45) @@ {"CR"} :> tr(46) @@ {"O"} :> st(98))
       @@ 98 :> (((token \ {"S"}) \cup {"/", ":", ";", "=", "HT", "SP", "other"}) :> st(23)
                @@ {"LF"} :> tr(45) @@ {"CR"} :> tr(46) @@ {"S"} :> st(99))
       @@ 99 :> (((token \ {"E"}) \cup {"/", ":", ";", "=", "HT", "SP", "other"}) :> st(23)
                @@ {"LF"} :> tr(45) @@ {"CR"} :> tr(46) @@ {"E"} :> st(100))
       @@ 100 :> ((token \cup {"/", ":", ";", "=", "HT", "SP", "other"}) :> st(23)
                @@ {"LF"} :> tr(136) @@ {"CR"} :> tr(137))
       @@ 101 :> ((token \ {"E"}) :> st(21) @@ {":"} :> tr(39) @@ {"E"} :> st(102))]

St102_St106 ==
  [tr |-> None,
   st |-> 102 :> ((token \ {"N"}) :> st(21) @@ {":"} :> tr(39) @@ {"N"} :> st(103))
       @@ 103 :> ((token \ {"T", "t"}) :> st(21) @@ {"T", "t"} :> st(104) @@ {":"} :> tr(39))
       @@ 104 :> ((token \ {"-"}) :> st(21) @@ {"-"} :> st(105) @@ {":"} :> tr(39))
       @@ 105 :> ((token \ {"L"}) :> st(21) @@ {":"} :> tr(39) @@ {"L"} :> st(106))
       @@ 106 :> ((token \ {"E"}) :> st(21) @@ {":"} :> tr(39) @@ {"E"} :> st(107))]

St107_St111 ==
  [tr |-> None,
   st |-> 107 :> ((token \ {"N"}) :> st(21) @@ {":"} :> tr(39) @@ {"N"} :> st(108))
       @@ 108 :> ((token \ {"G"}) :> st(21) @@ {":"} :> tr(39) @@ {"G"} :> st(109))
       @@ 109 :> ((token \ {"T", "t"}) :> st(21) @@ {"T", "t"} :> st(110) @@ {":"} :> tr(39))
       @@ 110 :> ((token \ {"H", "h"}) :> st(21) @@ {"H", "h"} :> st(111) @@ {":"} :> tr(39))
       @@ 111 :> (token :> st(21) @@ {":"} :> tr(148))]

Tr149_Tr156 ==
  [tr |-> 149 :> Do(<<"start_value">>, 112) @@ 148 :> Do(<<"write_field">>, 112)
         @@ 150 :> Do(<<"start_value", "write_value">>, 113)
         @@ 157 :> Do(<<"start_value">>, 115) @@ 154 :> Do(<<"done">>, 123)
         @@ 156 :> Do(<<"start_value", "start_field">>, 117),
   st |-> 112 :> (((token \ {"0"}) \cup {"/", ":", ";", "=", "other"}) :> tr(40)
                @@ {"HT", "SP"} :> tr(149) @@ {"LF"} :> tr(150) @@ {"CR"} :> tr(151)
                @@ {"0"} :> tr(152))
       @@ 113 :> ((token \ {"0", "C", "T", "t"}) :> tr(35) @@ {"HT", "SP"} :> st(114)
                @@ {"T", "t"} :> tr(37) @@ {"LF"} :> tr(154) @@ {"CR"} :> st(116)
                @@ {"0"} :> tr(156) @@ {"C"} :> tr(36))
       @@ 114 :> (space :> st(114) @@ {"0"} :> tr(157))
       @@ 115 :> ({"LF"} :> tr(158) @@ {"CR"} :> tr(159) @@ {"0"} :> st(115))
       @@ 123 :> (space :> st(114) @@ {"0"} :> tr(157))
       @@ 116 :> ((space \ {"LF"}) :> st(114) @@ {"LF"} :> tr(154) @@ {"0"} :> tr(157))]

St117_St119 ==
  [tr |-> 151 :> Do(<<"start_value", "write_value">>, 118) @@ 152 :> Do(<<"start_value">>, 119),
   st |-> 117 :> ((token \ {"0"}) :> st(21) @@ {"LF"} :> tr(158) @@ {"CR"} :> tr(159)
                @@ {"0"} :> st(117) @@ {":"} :> tr(39))
       @@ 118 :> ((space \ {"LF"}) :> st(114) @@ {"LF"} :> st(113) @@ {"0"} :> tr(157))
       @@ 119 :> (((token \ {"0"}) \cup {"/", ":", ";", "=", "HT", "SP", "other"}) :> st(23)
                @@ {"LF"} :> tr(158) @@ {"CR"} :> tr(159) @@ {"0"} :> st(119))]

Blocks ==
    <<St1_Tr4, Tr10_Tr13, St6_Tr27, St17_Tr76, St21_Tr77, St25_St28, St29_St33,
      St34_St41, St42_St45, St46_St50, St51_St55, St56_St60, Tr96_St69, St70_St74,
      St75_St79, Tr98_St122, St89_St93, St94_St101, St102_St106, St107_St111,
      Tr149_Tr156, St117_St119>>
Machine == [st |-> Merge(Blocks, "st"), tr |-> Merge(Blocks, "tr")]

=============================================================================
