---------------------------- MODULE HttpMachine ----------------------------
(***************************************************************************)
(* The machine of http11_parser.rl.cc, the code that is compiled: one block  *)
(* for each stretch of the switch in http_parser_execute.  A row gives for   *)
(* a state the `goto' for each set of characters; every other character is   *)
(* `goto st0', the error state.  tr |-> lists the transitions that perform    *)
(* actions before they enter a state.                                        *)
(***************************************************************************)
EXTENDS HttpGrammar

St1_Tr54 ==
  [tr |-> 0 :> Do(<<"mark">>, 2) @@ 4 :> Do(<<"request_method">>, 3)
         @@ 6 :> Do(<<"mark", "request_path", "request_uri">>, 4)
         @@ 37 :> Do(<<"request_path", "request_uri">>, 4)
         @@ 44 :> Do(<<"mark", "fragment">>, 4) @@ 47 :> Do(<<"fragment">>, 4)
         @@ 54 :> Do(<<"start_query", "query_string", "request_uri">>, 4),
   st |-> 1 :> ((upper \cup digit) :> tr(0) @@ {"<"} :> tr(2) @@ {"@"} :> tr(3))
       @@ 0 :> Stuck
       @@ 2 :> ((upper \cup digit) :> st(175) @@ {"SP"} :> tr(4))
       @@ 3 :> (((reg_char \ {"A", "H", "P", "T", "Z", "a", "v", "z"}) \cup {"@"}) :> tr(7)
                @@ alpha :> tr(12) @@ {"SP"} :> tr(6) @@ {"#"} :> tr(8) @@ {"%"} :> tr(9)
                @@ {"/"} :> tr(10) @@ {"?"} :> tr(11))]

Tr58_Tr23 ==
  [tr |-> 58 :> Do(<<"query_string", "request_uri">>, 4) @@ 13 :> Do(<<"mark">>, 5)
         @@ 21 :> Do(<<"http_version">>, 13) @@ 30 :> Do(<<"start_value", "write_value">>, 13)
         @@ 33 :> Do(<<"write_value">>, 13) @@ 23 :> Do(<<"start_field">>, 14),
   st |-> 4 :> ({"H"} :> tr(13))
       @@ 5 :> ({"T"} :> st(6))
       @@ 6 :> ({"T"} :> st(7))
       @@ 7 :> ({"P"} :> st(8))
       @@ 8 :> ({"/"} :> st(9))
       @@ 9 :> ({"1"} :> st(10))
       @@ 10 :> ({"."} :> st(11))
       @@ 11 :> ({"0", "1"} :> st(12))
       @@ 12 :> ({"LF"} :> tr(21) @@ {"CR"} :> tr(22))
       @@ 13 :> ((token \ {"CR", "LF"}) :> tr(23) @@ {"LF"} :> tr(24) @@ {"CR"} :> tr(25))]

St14_Tr36 ==
  [tr |-> 27 :> Do(<<"write_field">>, 15) @@ 29 :> Do(<<"start_value">>, 15)
         @@ 28 :> Do(<<"start_value">>, 16) @@ 22 :> Do(<<"http_version">>, 17)
         @@ 31 :> Do(<<"start_value", "write_value">>, 17) @@ 34 :> Do(<<"write_value">>, 17)
         @@ 24 :> Do(<<"start_field", "done">>, 348) @@ 36 :> Do(<<"done">>, 348),
   st |-> 14 :> (token :> st(14) @@ {":"} :> tr(27))
       @@ 15 :> (((token \ {"CR", "LF"}) \cup {"(", "/", ":", "<", ">", "?", "@", "[", "]", "high", "quote", "{", "}"}) :> tr(28)
                @@ {"HT", "SP"} :> tr(29) @@ {"LF"} :> tr(30) @@ {"CR"} :> tr(31))
       @@ 16 :> (((token \ {"CR", "LF"}) \cup {"(", "/", ":", "<", ">", "?", "@", "HT", "SP", "[", "]", "high", "quote", "{", "}"}) :> st(16)
                @@ {"LF"} :> tr(33) @@ {"CR"} :> tr(34))
       @@ 17 :> ({"LF"} :> st(13))]

St348_Tr8 ==
  [tr |-> 25 :> Do(<<"start_field">>, 18) @@ 7 :> Do(<<"mark">>, 19)
         @@ 8 :> Do(<<"mark", "request_path", "request_uri">>, 20),
   st |-> 348 :> (token :> st(14) @@ {":"} :> tr(27))
       @@ 18 :> ((token \ {"LF"}) :> st(14) @@ {"LF"} :> tr(36) @@ {":"} :> tr(27))
       @@ 19 :> ((reg_char \cup {"@"}) :> st(19) @@ {"SP"} :> tr(37) @@ {"#"} :> tr(39)
                @@ {"%"} :> st(24) @@ {"/"} :> st(26) @@ {"?"} :> tr(42))]

Tr39_Tr45 ==
  [tr |-> 39 :> Do(<<"request_path", "request_uri">>, 20)
         @@ 55 :> Do(<<"start_query", "query_string", "request_uri">>, 20)
         @@ 59 :> Do(<<"query_string", "request_uri">>, 20) @@ 43 :> Do(<<"mark">>, 21)
         @@ 45 :> Do(<<"mark">>, 22),
   st |-> 20 :> ((path_char \cup {"/", "?"}) :> tr(43) @@ {"SP"} :> tr(44) @@ {"%"} :> tr(45))
       @@ 21 :> ((path_char \cup {"/", "?"}) :> st(21) @@ {"SP"} :> tr(47) @@ {"%"} :> st(22))]

St22_St28 ==
  [tr |-> 9 :> Do(<<"mark">>, 24) @@ 203 :> Do(<<"mark">>, 26) @@ 204 :> Do(<<"mark">>, 27),
   st |-> 22 :> (xdigit :> st(23))
       @@ 23 :> (xdigit :> st(21))
       @@ 24 :> (xdigit :> st(25))
       @@ 25 :> (xdigit :> st(19))
       @@ 26 :> ((path_char \cup {"/"}) :> st(26) @@ {"SP"} :> tr(37) @@ {"#"} :> tr(39)
                @@ {"%"} :> st(27) @@ {"?"} :> tr(42))
       @@ 27 :> (xdigit :> st(28))
       @@ 28 :> (xdigit :> st(26))]

Tr11_St31 ==
  [tr |-> 11 :> Do(<<"mark", "request_path">>, 29) @@ 42 :> Do(<<"request_path">>, 29)
         @@ 53 :> Do(<<"start_query">>, 30) @@ 56 :> Do(<<"start_query">>, 31),
   st |-> 29 :> ((path_char \cup {"/", "?"}) :> tr(53) @@ {"SP"} :> tr(54) @@ {"#"} :> tr(55)
                @@ {"%"} :> tr(56))
       @@ 30 :> ((path_char \cup {"/", "?"}) :> st(30) @@ {"SP"} :> tr(58) @@ {"#"} :> tr(59)
                @@ {"%"} :> st(31))
       @@ 31 :> (xdigit :> st(32))]

St32_St34 ==
  [tr |-> 10 :> Do(<<"mark">>, 33),
   st |-> 32 :> (xdigit :> st(30))
       @@ 33 :> (path_char :> st(26) @@ {"SP"} :> tr(37) @@ {"#"} :> tr(39) @@ {"%"} :> st(27)
                @@ {"/"} :> st(34) @@ {"?"} :> tr(42))
       @@ 34 :> (reg_char :> st(35) @@ {"SP"} :> tr(37) @@ {"#"} :> tr(39) @@ {"%"} :> st(36)
                @@ {"/"} :> st(26) @@ {":"} :> st(38) @@ {"?"} :> tr(42) @@ {"@"} :> st(42)
                @@ {"["} :> st(47))]

St35_St38 ==
  [tr |-> None,
   st |-> 35 :> (reg_char :> st(35) @@ {"SP"} :> tr(37) @@ {"#"} :> tr(39) @@ {"%"} :> st(36)
                @@ {"/"} :> st(26) @@ {":"} :> st(38) @@ {"?"} :> tr(42) @@ {"@"} :> st(42))
       @@ 36 :> (xdigit :> st(37))
       @@ 37 :> (xdigit :> st(35))
       @@ 38 :> (((reg_char \ {"0", "1", "2", "3", "5", "9"}) \cup {":"}) :> st(39)
                @@ digit :> st(38) @@ {"SP"} :> tr(37) @@ {"#"} :> tr(39) @@ {"%"} :> st(40)
                @@ {"/"} :> st(26) @@ {"?"} :> tr(42) @@ {"@"} :> st(42))]

St39_St42 ==
  [tr |-> None,
   st |-> 39 :> ((reg_char \cup {":"}) :> st(39) @@ {"%"} :> st(40) @@ {"@"} :> st(42))
       @@ 40 :> (xdigit :> st(41))
       @@ 41 :> (xdigit :> st(39))
       @@ 42 :> (reg_char :> st(43) @@ {"SP"} :> tr(37) @@ {"#"} :> tr(39) @@ {"%"} :> st(44)
                @@ {"/"} :> st(26) @@ {":"} :> st(46) @@ {"?"} :> tr(42) @@ {"["} :> st(47))]

St43_St50 ==
  [tr |-> None,
   st |-> 43 :> (reg_char :> st(43) @@ {"SP"} :> tr(37) @@ {"#"} :> tr(39) @@ {"%"} :> st(44)
                @@ {"/"} :> st(26) @@ {":"} :> st(46) @@ {"?"} :> tr(42))
       @@ 44 :> (xdigit :> st(45))
       @@ 45 :> (xdigit :> st(43))
       @@ 46 :> (digit :> st(46) @@ {"SP"} :> tr(37) @@ {"#"} :> tr(39) @@ {"/"} :> st(26)
                @@ {"?"} :> tr(42))
       @@ 47 :> (xdigit :> st(91) @@ {"x06"} :> st(48) @@ {":"} :> st(167) @@ {"v"} :> st(169))
       @@ 48 :> (xdigit :> st(49))
       @@ 49 :> (xdigit :> st(50) @@ {":"} :> st(53))
       @@ 50 :> (xdigit :> st(51) @@ {":"} :> st(53))]

St51_St64 ==
  [tr |-> None,
   st |-> 51 :> (xdigit :> st(52) @@ {":"} :> st(53))
       @@ 52 :> ({":"} :> st(53))
       @@ 53 :> ((digit \ {"1", "2"}) :> st(54) @@ {"A", "a"} :> st(90) @@ {"1"} :> st(84)
                @@ {"2"} :> st(87))
       @@ 54 :> (xdigit :> st(77) @@ {"."} :> st(55) @@ {":"} :> st(80))
       @@ 55 :> ((digit \ {"1", "2"}) :> st(56) @@ {"1"} :> st(72) @@ {"2"} :> st(74))
       @@ 56 :> ({"."} :> st(57))
       @@ 57 :> ((digit \ {"1", "2"}) :> st(58) @@ {"1"} :> st(67) @@ {"2"} :> st(69))
       @@ 58 :> ({"."} :> st(59))
       @@ 59 :> ((digit \ {"1", "2"}) :> st(60) @@ {"1"} :> st(62) @@ {"2"} :> st(64))
       @@ 60 :> ({"]"} :> st(61))
       @@ 61 :> ({"SP"} :> tr(37) @@ {"#"} :> tr(39) @@ {"/"} :> st(26) @@ {":"} :> st(46)
                @@ {"?"} :> tr(42))
       @@ 62 :> (digit :> st(63) @@ {"]"} :> st(61))
       @@ 63 :> (digit :> st(60) @@ {"]"} :> st(61))
       @@ 64 :> ({"0"} :> st(65) @@ {"5"} :> st(66) @@ {"]"} :> st(61))]

St65_St80 ==
  [tr |-> None,
   st |-> 65 :> (digit :> st(60))
       @@ 66 :> ({"0"} :> st(60))
       @@ 67 :> (digit :> st(68) @@ {"."} :> st(59))
       @@ 68 :> (digit :> st(58) @@ {"."} :> st(59))
       @@ 69 :> ({"."} :> st(59) @@ {"0"} :> st(70) @@ {"5"} :> st(71))
       @@ 70 :> (digit :> st(58))
       @@ 71 :> ({"0"} :> st(58))
       @@ 72 :> (digit :> st(73) @@ {"."} :> st(57))
       @@ 73 :> (digit :> st(56) @@ {"."} :> st(57))
       @@ 74 :> ({"."} :> st(57) @@ {"0"} :> st(75) @@ {"5"} :> st(76))
       @@ 75 :> (digit :> st(56))
       @@ 76 :> ({"0"} :> st(56))
       @@ 77 :> (xdigit :> st(78) @@ {":"} :> st(80))
       @@ 78 :> (xdigit :> st(79) @@ {":"} :> st(80))
       @@ 79 :> ({":"} :> st(80))
       @@ 80 :> (xdigit :> st(81))]

St81_St89 ==
  [tr |-> None,
   st |-> 81 :> (xdigit :> st(82) @@ {"]"} :> st(61))
       @@ 82 :> (xdigit :> st(83) @@ {"]"} :> st(61))
       @@ 83 :> (xdigit :> st(60) @@ {"]"} :> st(61))
       @@ 84 :> (digit :> st(85) @@ {"A", "a"} :> st(77) @@ {"."} :> st(55) @@ {":"} :> st(80))
       @@ 85 :> (digit :> st(86) @@ {"A", "a"} :> st(78) @@ {"."} :> st(55) @@ {":"} :> st(80))
       @@ 86 :> (xdigit :> st(79) @@ {"."} :> st(55) @@ {":"} :> st(80))
       @@ 87 :> ((xdigit \ {"0", "5"}) :> st(77) @@ {"."} :> st(55) @@ {"0"} :> st(88)
                @@ {"5"} :> st(89) @@ {":"} :> st(80))
       @@ 88 :> (digit :> st(86) @@ {"A", "a"} :> st(78) @@ {":"} :> st(80))
       @@ 89 :> ((xdigit \ {"0"}) :> st(78) @@ {"0"} :> st(86) @@ {":"} :> st(80))]

St90_St100 ==
  [tr |-> None,
   st |-> 90 :> (xdigit :> st(77) @@ {":"} :> st(80))
       @@ 91 :> (xdigit :> st(92) @@ {":"} :> st(95))
       @@ 92 :> (xdigit :> st(93) @@ {":"} :> st(95))
       @@ 93 :> (xdigit :> st(94) @@ {":"} :> st(95))
       @@ 94 :> ({":"} :> st(95))
       @@ 95 :> (xdigit :> st(96) @@ {":"} :> st(166))
       @@ 96 :> (xdigit :> st(97) @@ {":"} :> st(100))
       @@ 97 :> (xdigit :> st(98) @@ {":"} :> st(100))
       @@ 98 :> (xdigit :> st(99) @@ {":"} :> st(100))
       @@ 99 :> ({":"} :> st(100))
       @@ 100 :> (xdigit :> st(101) @@ {":"} :> st(165))]

St101_St111 ==
  [tr |-> None,
   st |-> 101 :> (xdigit :> st(102) @@ {":"} :> st(105))
       @@ 102 :> (xdigit :> st(103) @@ {":"} :> st(105))
       @@ 103 :> (xdigit :> st(104) @@ {":"} :> st(105))
       @@ 104 :> ({":"} :> st(105))
       @@ 105 :> (xdigit :> st(106) @@ {":"} :> st(164))
       @@ 106 :> (xdigit :> st(107) @@ {":"} :> st(110))
       @@ 107 :> (xdigit :> st(108) @@ {":"} :> st(110))
       @@ 108 :> (xdigit :> st(109) @@ {":"} :> st(110))
       @@ 109 :> ({":"} :> st(110))
       @@ 110 :> (xdigit :> st(111) @@ {":"} :> st(163))
       @@ 111 :> (xdigit :> st(112) @@ {":"} :> st(115))]

St112_St122 ==
  [tr |-> None,
   st |-> 112 :> (xdigit :> st(113) @@ {":"} :> st(115))
       @@ 113 :> (xdigit :> st(114) @@ {":"} :> st(115))
       @@ 114 :> ({":"} :> st(115))
       @@ 115 :> (xdigit :> st(116) @@ {":"} :> st(151))
       @@ 116 :> (xdigit :> st(117) @@ {":"} :> st(120))
       @@ 117 :> (xdigit :> st(118) @@ {":"} :> st(120))
       @@ 118 :> (xdigit :> st(119) @@ {":"} :> st(120))
       @@ 119 :> ({":"} :> st(120))
       @@ 120 :> (xdigit :> st(121) @@ {":"} :> st(150))
       @@ 121 :> (xdigit :> st(122) @@ {":"} :> st(125))
       @@ 122 :> (xdigit :> st(123) @@ {":"} :> st(125))]

St123_St131 ==
  [tr |-> None,
   st |-> 123 :> (xdigit :> st(124) @@ {":"} :> st(125))
       @@ 124 :> ({":"} :> st(125))
       @@ 125 :> (xdigit :> st(121) @@ {":"} :> st(126))
       @@ 126 :> ((digit \ {"1", "2"}) :> st(127) @@ {"x02", "x03"} :> st(48)
                @@ {"A", "a"} :> st(149) @@ {"1"} :> st(143) @@ {"2"} :> st(146)
                @@ {"]"} :> st(61))
       @@ 127 :> (xdigit :> st(128) @@ {"."} :> st(55) @@ {":"} :> st(131) @@ {"]"} :> st(61))
       @@ 128 :> (xdigit :> st(129) @@ {":"} :> st(131) @@ {"]"} :> st(61))
       @@ 129 :> (xdigit :> st(130) @@ {":"} :> st(131) @@ {"]"} :> st(61))
       @@ 130 :> ({":"} :> st(131) @@ {"]"} :> st(61))
       @@ 131 :> ((digit \ {"1", "2"}) :> st(132) @@ {"A", "a"} :> st(142) @@ {"1"} :> st(136)
                @@ {"2"} :> st(139))]

St132_St139 ==
  [tr |-> None,
   st |-> 132 :> (xdigit :> st(133) @@ {"."} :> st(55) @@ {":"} :> st(80) @@ {"]"} :> st(61))
       @@ 133 :> (xdigit :> st(134) @@ {":"} :> st(80) @@ {"]"} :> st(61))
       @@ 134 :> (xdigit :> st(135) @@ {":"} :> st(80) @@ {"]"} :> st(61))
       @@ 135 :> ({":"} :> st(80) @@ {"]"} :> st(61))
       @@ 136 :> (digit :> st(137) @@ {"A", "a"} :> st(133) @@ {"."} :> st(55)
                @@ {":"} :> st(80) @@ {"]"} :> st(61))
       @@ 137 :> (digit :> st(138) @@ {"A", "a"} :> st(134) @@ {"."} :> st(55)
                @@ {":"} :> st(80) @@ {"]"} :> st(61))
       @@ 138 :> (xdigit :> st(135) @@ {"."} :> st(55) @@ {":"} :> st(80) @@ {"]"} :> st(61))
       @@ 139 :> ((xdigit \ {"0", "5"}) :> st(133) @@ {"."} :> st(55) @@ {"0"} :> st(140)
                @@ {"5"} :> st(141) @@ {":"} :> st(80) @@ {"]"} :> st(61))]

St140_St147 ==
  [tr |-> None,
   st |-> 140 :> (digit :> st(138) @@ {"A", "a"} :> st(134) @@ {":"} :> st(80)
                @@ {"]"} :> st(61))
       @@ 141 :> ((xdigit \ {"0"}) :> st(134) @@ {"0"} :> st(138) @@ {":"} :> st(80)
                @@ {"]"} :> st(61))
       @@ 142 :> (xdigit :> st(133) @@ {":"} :> st(80) @@ {"]"} :> st(61))
       @@ 143 :> (digit :> st(144) @@ {"A", "a"} :> st(128) @@ {"."} :> st(55)
                @@ {":"} :> st(131) @@ {"]"} :> st(61))
       @@ 144 :> (digit :> st(145) @@ {"A", "a"} :> st(129) @@ {"."} :> st(55)
                @@ {":"} :> st(131) @@ {"]"} :> st(61))
       @@ 145 :> (xdigit :> st(130) @@ {"."} :> st(55) @@ {":"} :> st(131) @@ {"]"} :> st(61))
       @@ 146 :> ((xdigit \ {"0", "5"}) :> st(128) @@ {"."} :> st(55) @@ {"0"} :> st(147)
                @@ {"5"} :> st(148) @@ {":"} :> st(131) @@ {"]"} :> st(61))
       @@ 147 :> (digit :> st(145) @@ {"A", "a"} :> st(129) @@ {":"} :> st(131)
                @@ {"]"} :> st(61))]

St148_St156 ==
  [tr |-> None,
   st |-> 148 :> ((xdigit \ {"0"}) :> st(129) @@ {"0"} :> st(145) @@ {":"} :> st(131)
                @@ {"]"} :> st(61))
       @@ 149 :> (xdigit :> st(128) @@ {":"} :> st(131) @@ {"]"} :> st(61))
       @@ 150 :> ((digit \ {"1", "2"}) :> st(127) @@ {"x02", "x03"} :> st(48)
                @@ {"A", "a"} :> st(149) @@ {"1"} :> st(143) @@ {"2"} :> st(146))
       @@ 151 :> ((digit \ {"1", "2"}) :> st(152) @@ {"x02", "x03"} :> st(48)
                @@ {"A", "a"} :> st(162) @@ {"1"} :> st(156) @@ {"2"} :> st(159))
       @@ 152 :> (xdigit :> st(153) @@ {"."} :> st(55) @@ {":"} :> st(131))
       @@ 153 :> (xdigit :> st(154) @@ {":"} :> st(131))
       @@ 154 :> (xdigit :> st(155) @@ {":"} :> st(131))
       @@ 155 :> ({":"} :> st(131))
       @@ 156 :> (digit :> st(157) @@ {"A", "a"} :> st(153) @@ {"."} :> st(55)
                @@ {":"} :> st(131))]

St157_St167 ==
  [tr |-> None,
   st |-> 157 :> (digit :> st(158) @@ {"A", "a"} :> st(154) @@ {"."} :> st(55)
                @@ {":"} :> st(131))
       @@ 158 :> (xdigit :> st(155) @@ {"."} :> st(55) @@ {":"} :> st(131))
       @@ 159 :> ((xdigit \ {"0", "5"}) :> st(153) @@ {"."} :> st(55) @@ {"0"} :> st(160)
                @@ {"5"} :> st(161) @@ {":"} :> st(131))
       @@ 160 :> (digit :> st(158) @@ {"A", "a"} :> st(154) @@ {":"} :> st(131))
       @@ 161 :> ((xdigit \ {"0"}) :> st(154) @@ {"0"} :> st(158) @@ {":"} :> st(131))
       @@ 162 :> (xdigit :> st(153) @@ {":"} :> st(131))
       @@ 163 :> (xdigit :> st(49) @@ {"x02", "x03"} :> st(48))
       @@ 164 :> ({"x02", "x03"} :> st(48))
       @@ 165 :> ({"x03"} :> st(48))
       @@ 166 :> ({"x04"} :> st(48))
       @@ 167 :> ({":"} :> st(168))]

St168_Tr12 ==
  [tr |-> 12 :> Do(<<"mark">>, 173),
   st |-> 168 :> ({"x02", "x03", "x04", "x05"} :> st(48) @@ (digit \ {"1", "2"}) :> st(127)
                @@ {"A", "a"} :> st(149) @@ {"1"} :> st(143) @@ {"2"} :> st(146)
                @@ {"]"} :> st(61))
       @@ 169 :> (xdigit :> st(170))
       @@ 170 :> (xdigit :> st(170) @@ {"."} :> st(171))
       @@ 171 :> ((reg_char \cup {":"}) :> st(172))
       @@ 172 :> ((reg_char \cup {":"}) :> st(172) @@ {"]"} :> st(61))]

St173_St177 ==
  [tr |-> None,
   st |-> 173 :> (scheme_char :> st(173)
                @@ {"!", "(", "@", "_", "when ^", "when {", "when }"} :> st(19)
                @@ {"SP"} :> tr(37) @@ {"#"} :> tr(39) @@ {"%"} :> st(24) @@ {"/"} :> st(26)
                @@ {":"} :> st(174) @@ {"?"} :> tr(42))
       @@ 174 :> (path_char :> tr(203) @@ {"SP"} :> tr(6) @@ {"#"} :> tr(8) @@ {"%"} :> tr(204)
                @@ {"/"} :> tr(10) @@ {"?"} :> tr(11))
       @@ 175 :> ((upper \cup digit) :> st(176) @@ {"SP"} :> tr(4))
       @@ 176 :> ((upper \cup digit) :> st(177) @@ {"SP"} :> tr(4))
       @@ 177 :> ((upper \cup digit) :> st(178) @@ {"SP"} :> tr(4))]

St178_St189 ==
  [tr |-> None,
   st |-> 178 :> ((upper \cup digit) :> st(179) @@ {"SP"} :> tr(4))
       @@ 179 :> ((upper \cup digit) :> st(180) @@ {"SP"} :> tr(4))
       @@ 180 :> ((upper \cup digit) :> st(181) @@ {"SP"} :> tr(4))
       @@ 181 :> ((upper \cup digit) :> st(182) @@ {"SP"} :> tr(4))
       @@ 182 :> ((upper \cup digit) :> st(183) @@ {"SP"} :> tr(4))
       @@ 183 :> ((upper \cup digit) :> st(184) @@ {"SP"} :> tr(4))
       @@ 184 :> ((upper \cup digit) :> st(185) @@ {"SP"} :> tr(4))
       @@ 185 :> ((upper \cup digit) :> st(186) @@ {"SP"} :> tr(4))
       @@ 186 :> ((upper \cup digit) :> st(187) @@ {"SP"} :> tr(4))
       @@ 187 :> ((upper \cup digit) :> st(188) @@ {"SP"} :> tr(4))
       @@ 188 :> ((upper \cup digit) :> st(189) @@ {"SP"} :> tr(4))
       @@ 189 :> ((upper \cup digit) :> st(190) @@ {"SP"} :> tr(4))]

St190_Tr227 ==
  [tr |-> 2 :> Do(<<"mark">>, 194) @@ 224 :> Do(<<"request_path">>, 196)
         @@ 227 :> Do(<<"xml", "done">>, 349),
   st |-> 190 :> ((upper \cup digit) :> st(191) @@ {"SP"} :> tr(4))
       @@ 191 :> ((upper \cup digit) :> st(192) @@ {"SP"} :> tr(4))
       @@ 192 :> ((upper \cup digit) :> st(193) @@ {"SP"} :> tr(4))
       @@ 193 :> ({"SP"} :> tr(4))
       @@ 194 :> ((scheme_char \ {"+"}) :> st(195))
       @@ 195 :> ((scheme_char \ {"+"}) :> st(195)
                @@ {"/", ">", "CR", "HT", "LF", "SP", "VT"} :> tr(224))
       @@ 196 :> ((token \cup {"(", "/", ":", "<", "?", "@", "DEL", "HT", "NUL", "SP", "[", "]", "high", "quote", "{", "}"}) :> st(196)
                @@ {">"} :> st(197))
       @@ 197 :> ((token \cup {"(", "/", ":", "<", "?", "@", "DEL", "HT", "SP", "[", "]", "high", "quote", "{", "}"}) :> st(196)
                @@ {"NUL"} :> tr(227) @@ {">"} :> st(197))]

Tr235_St201 ==
  [tr |-> 235 :> Do(<<"json", "done">>, 349) @@ 3 :> Do(<<"mark">>, 198)
         @@ 228 :> Do(<<"request_path">>, 199) @@ 232 :> Do(<<"mark">>, 200),
   st |-> 349 :> Stuck
       @@ 198 :> ((reg_char \cup {"@"}) :> st(202) @@ {"SP"} :> tr(228) @@ {"%"} :> st(203)
                @@ {"/"} :> st(208))
       @@ 199 :> ({"{"} :> tr(232))
       @@ 200 :> ((token \cup {"(", "/", ":", "<", ">", "?", "@", "DEL", "HT", "NUL", "SP", "[", "]", "high", "quote", "{"}) :> st(200)
                @@ {"}"} :> st(201))
       @@ 201 :> ((token \cup {"(", "/", ":", "<", ">", "?", "@", "DEL", "HT", "SP", "[", "]", "high", "quote", "{"}) :> st(200)
                @@ {"NUL"} :> tr(235) @@ {"}"} :> st(201))]

St202_St207 ==
  [tr |-> None,
   st |-> 202 :> ((reg_char \cup {"@"}) :> st(202) @@ {"SP"} :> tr(228) @@ {"%"} :> st(203)
                @@ {"/"} :> st(205))
       @@ 203 :> (xdigit :> st(204))
       @@ 204 :> (xdigit :> st(202))
       @@ 205 :> ((path_char \cup {"/"}) :> st(205) @@ {"SP"} :> tr(228) @@ {"%"} :> st(206))
       @@ 206 :> (xdigit :> st(207))
       @@ 207 :> (xdigit :> st(205))]

St208_St210 ==
  [tr |-> None,
   st |-> 208 :> (path_char :> st(205) @@ {"SP"} :> tr(228) @@ {"%"} :> st(206)
                @@ {"/"} :> st(209))
       @@ 209 :> (reg_char :> st(210) @@ {"SP"} :> tr(228) @@ {"%"} :> st(211)
                @@ {"/"} :> st(205) @@ {":"} :> st(213) @@ {"@"} :> st(217) @@ {"["} :> st(222))
       @@ 210 :> (reg_char :> st(210) @@ {"SP"} :> tr(228) @@ {"%"} :> st(211)
                @@ {"/"} :> st(205) @@ {":"} :> st(213) @@ {"@"} :> st(217))]

St211_St215 ==
  [tr |-> None,
   st |-> 211 :> (xdigit :> st(212))
       @@ 212 :> (xdigit :> st(210))
       @@ 213 :> (((reg_char \ {"0", "1", "2", "3", "5", "9"}) \cup {":"}) :> st(214)
                @@ digit :> st(213) @@ {"SP"} :> tr(228) @@ {"%"} :> st(215) @@ {"/"} :> st(205)
                @@ {"@"} :> st(217))
       @@ 214 :> ((reg_char \cup {":"}) :> st(214) @@ {"%"} :> st(215) @@ {"@"} :> st(217))
       @@ 215 :> (xdigit :> st(216))]

St216_St221 ==
  [tr |-> None,
   st |-> 216 :> (xdigit :> st(214))
       @@ 217 :> (reg_char :> st(218) @@ {"SP"} :> tr(228) @@ {"%"} :> st(219)
                @@ {"/"} :> st(205) @@ {":"} :> st(221) @@ {"["} :> st(222))
       @@ 218 :> (reg_char :> st(218) @@ {"SP"} :> tr(228) @@ {"%"} :> st(219)
                @@ {"/"} :> st(205) @@ {":"} :> st(221))
       @@ 219 :> (xdigit :> st(220))
       @@ 220 :> (xdigit :> st(218))
       @@ 221 :> (digit :> st(221) @@ {"SP"} :> tr(228) @@ {"/"} :> st(205))]

St222_St232 ==
  [tr |-> None,
   st |-> 222 :> (xdigit :> st(266) @@ {"x06"} :> st(223) @@ {":"} :> st(342)
                @@ {"v"} :> st(344))
       @@ 223 :> (xdigit :> st(224))
       @@ 224 :> (xdigit :> st(225) @@ {":"} :> st(228))
       @@ 225 :> (xdigit :> st(226) @@ {":"} :> st(228))
       @@ 226 :> (xdigit :> st(227) @@ {":"} :> st(228))
       @@ 227 :> ({":"} :> st(228))
       @@ 228 :> ((digit \ {"1", "2"}) :> st(229) @@ {"A", "a"} :> st(265) @@ {"1"} :> st(259)
                @@ {"2"} :> st(262))
       @@ 229 :> (xdigit :> st(252) @@ {"."} :> st(230) @@ {":"} :> st(255))
       @@ 230 :> ((digit \ {"1", "2"}) :> st(231) @@ {"1"} :> st(247) @@ {"2"} :> st(249))
       @@ 231 :> ({"."} :> st(232))
       @@ 232 :> ((digit \ {"1", "2"}) :> st(233) @@ {"1"} :> st(242) @@ {"2"} :> st(244))]

St233_St249 ==
  [tr |-> None,
   st |-> 233 :> ({"."} :> st(234))
       @@ 234 :> ((digit \ {"1", "2"}) :> st(235) @@ {"1"} :> st(237) @@ {"2"} :> st(239))
       @@ 235 :> ({"]"} :> st(236))
       @@ 236 :> ({"SP"} :> tr(228) @@ {"/"} :> st(205) @@ {":"} :> st(221))
       @@ 237 :> (digit :> st(238) @@ {"]"} :> st(236))
       @@ 238 :> (digit :> st(235) @@ {"]"} :> st(236))
       @@ 239 :> ({"0"} :> st(240) @@ {"5"} :> st(241) @@ {"]"} :> st(236))
       @@ 240 :> (digit :> st(235))
       @@ 241 :> ({"0"} :> st(235))
       @@ 242 :> (digit :> st(243) @@ {"."} :> st(234))
       @@ 243 :> (digit :> st(233) @@ {"."} :> st(234))
       @@ 244 :> ({"."} :> st(234) @@ {"0"} :> st(245) @@ {"5"} :> st(246))
       @@ 245 :> (digit :> st(233))
       @@ 246 :> ({"0"} :> st(233))
       @@ 247 :> (digit :> st(248) @@ {"."} :> st(232))
       @@ 248 :> (digit :> st(231) @@ {"."} :> st(232))
       @@ 249 :> ({"."} :> st(232) @@ {"0"} :> st(250) @@ {"5"} :> st(251))]

St250_St260 ==
  [tr |-> None,
   st |-> 250 :> (digit :> st(231))
       @@ 251 :> ({"0"} :> st(231))
       @@ 252 :> (xdigit :> st(253) @@ {":"} :> st(255))
       @@ 253 :> (xdigit :> st(254) @@ {":"} :> st(255))
       @@ 254 :> ({":"} :> st(255))
       @@ 255 :> (xdigit :> st(256))
       @@ 256 :> (xdigit :> st(257) @@ {"]"} :> st(236))
       @@ 257 :> (xdigit :> st(258) @@ {"]"} :> st(236))
       @@ 258 :> (xdigit :> st(235) @@ {"]"} :> st(236))
       @@ 259 :> (digit :> st(260) @@ {"A", "a"} :> st(252) @@ {"."} :> st(230)
                @@ {":"} :> st(255))
       @@ 260 :> (digit :> st(261) @@ {"A", "a"} :> st(253) @@ {"."} :> st(230)
                @@ {":"} :> st(255))]

St261_St270 ==
  [tr |-> None,
   st |-> 261 :> (xdigit :> st(254) @@ {"."} :> st(230) @@ {":"} :> st(255))
       @@ 262 :> ((xdigit \ {"0", "5"}) :> st(252) @@ {"."} :> st(230) @@ {"0"} :> st(263)
                @@ {"5"} :> st(264) @@ {":"} :> st(255))
       @@ 263 :> (digit :> st(261) @@ {"A", "a"} :> st(253) @@ {":"} :> st(255))
       @@ 264 :> ((xdigit \ {"0"}) :> st(253) @@ {"0"} :> st(261) @@ {":"} :> st(255))
       @@ 265 :> (xdigit :> st(252) @@ {":"} :> st(255))
       @@ 266 :> (xdigit :> st(267) @@ {":"} :> st(270))
       @@ 267 :> (xdigit :> st(268) @@ {":"} :> st(270))
       @@ 268 :> (xdigit :> st(269) @@ {":"} :> st(270))
       @@ 269 :> ({":"} :> st(270))
       @@ 270 :> (xdigit :> st(271) @@ {":"} :> st(341))]

St271_St281 ==
  [tr |-> None,
   st |-> 271 :> (xdigit :> st(272) @@ {":"} :> st(275))
       @@ 272 :> (xdigit :> st(273) @@ {":"} :> st(275))
       @@ 273 :> (xdigit :> st(274) @@ {":"} :> st(275))
       @@ 274 :> ({":"} :> st(275))
       @@ 275 :> (xdigit :> st(276) @@ {":"} :> st(340))
       @@ 276 :> (xdigit :> st(277) @@ {":"} :> st(280))
       @@ 277 :> (xdigit :> st(278) @@ {":"} :> st(280))
       @@ 278 :> (xdigit :> st(279) @@ {":"} :> st(280))
       @@ 279 :> ({":"} :> st(280))
       @@ 280 :> (xdigit :> st(281) @@ {":"} :> st(339))
       @@ 281 :> (xdigit :> st(282) @@ {":"} :> st(285))]

St282_St292 ==
  [tr |-> None,
   st |-> 282 :> (xdigit :> st(283) @@ {":"} :> st(285))
       @@ 283 :> (xdigit :> st(284) @@ {":"} :> st(285))
       @@ 284 :> ({":"} :> st(285))
       @@ 285 :> (xdigit :> st(286) @@ {":"} :> st(338))
       @@ 286 :> (xdigit :> st(287) @@ {":"} :> st(290))
       @@ 287 :> (xdigit :> st(288) @@ {":"} :> st(290))
       @@ 288 :> (xdigit :> st(289) @@ {":"} :> st(290))
       @@ 289 :> ({":"} :> st(290))
       @@ 290 :> (xdigit :> st(291) @@ {":"} :> st(326))
       @@ 291 :> (xdigit :> st(292) @@ {":"} :> st(295))
       @@ 292 :> (xdigit :> st(293) @@ {":"} :> st(295))]

St293_St302 ==
  [tr |-> None,
   st |-> 293 :> (xdigit :> st(294) @@ {":"} :> st(295))
       @@ 294 :> ({":"} :> st(295))
       @@ 295 :> (xdigit :> st(296) @@ {":"} :> st(325))
       @@ 296 :> (xdigit :> st(297) @@ {":"} :> st(300))
       @@ 297 :> (xdigit :> st(298) @@ {":"} :> st(300))
       @@ 298 :> (xdigit :> st(299) @@ {":"} :> st(300))
       @@ 299 :> ({":"} :> st(300))
       @@ 300 :> (xdigit :> st(296) @@ {":"} :> st(301))
       @@ 301 :> ((digit \ {"1", "2"}) :> st(302) @@ {"x02", "x03"} :> st(223)
                @@ {"A", "a"} :> st(324) @@ {"1"} :> st(318) @@ {"2"} :> st(321)
                @@ {"]"} :> st(236))
       @@ 302 :> (xdigit :> st(303) @@ {"."} :> st(230) @@ {":"} :> st(306) @@ {"]"} :> st(236))]

St303_St311 ==
  [tr |-> None,
   st |-> 303 :> (xdigit :> st(304) @@ {":"} :> st(306) @@ {"]"} :> st(236))
       @@ 304 :> (xdigit :> st(305) @@ {":"} :> st(306) @@ {"]"} :> st(236))
       @@ 305 :> ({":"} :> st(306) @@ {"]"} :> st(236))
       @@ 306 :> ((digit \ {"1", "2"}) :> st(307) @@ {"A", "a"} :> st(317) @@ {"1"} :> st(311)
                @@ {"2"} :> st(314))
       @@ 307 :> (xdigit :> st(308) @@ {"."} :> st(230) @@ {":"} :> st(255) @@ {"]"} :> st(236))
       @@ 308 :> (xdigit :> st(309) @@ {":"} :> st(255) @@ {"]"} :> st(236))
       @@ 309 :> (xdigit :> st(310) @@ {":"} :> st(255) @@ {"]"} :> st(236))
       @@ 310 :> ({":"} :> st(255) @@ {"]"} :> st(236))
       @@ 311 :> (digit :> st(312) @@ {"A", "a"} :> st(308) @@ {"."} :> st(230)
                @@ {":"} :> st(255) @@ {"]"} :> st(236))]

St312_St319 ==
  [tr |-> None,
   st |-> 312 :> (digit :> st(313) @@ {"A", "a"} :> st(309) @@ {"."} :> st(230)
                @@ {":"} :> st(255) @@ {"]"} :> st(236))
       @@ 313 :> (xdigit :> st(310) @@ {"."} :> st(230) @@ {":"} :> st(255) @@ {"]"} :> st(236))
       @@ 314 :> ((xdigit \ {"0", "5"}) :> st(308) @@ {"."} :> st(230) @@ {"0"} :> st(315)
                @@ {"5"} :> st(316) @@ {":"} :> st(255) @@ {"]"} :> st(236))
       @@ 315 :> (digit :> st(313) @@ {"A", "a"} :> st(309) @@ {":"} :> st(255)
                @@ {"]"} :> st(236))
       @@ 316 :> ((xdigit \ {"0"}) :> st(309) @@ {"0"} :> st(313) @@ {":"} :> st(255)
                @@ {"]"} :> st(236))
       @@ 317 :> (xdigit :> st(308) @@ {":"} :> st(255) @@ {"]"} :> st(236))
       @@ 318 :> (digit :> st(319) @@ {"A", "a"} :> st(303) @@ {"."} :> st(230)
                @@ {":"} :> st(306) @@ {"]"} :> st(236))
       @@ 319 :> (digit :> st(320) @@ {"A", "a"} :> st(304) @@ {"."} :> st(230)
                @@ {":"} :> st(306) @@ {"]"} :> st(236))]

St320_St327 ==
  [tr |-> None,
   st |-> 320 :> (xdigit :> st(305) @@ {"."} :> st(230) @@ {":"} :> st(306) @@ {"]"} :> st(236))
       @@ 321 :> ((xdigit \ {"0", "5"}) :> st(303) @@ {"."} :> st(230) @@ {"0"} :> st(322)
                @@ {"5"} :> st(323) @@ {":"} :> st(306) @@ {"]"} :> st(236))
       @@ 322 :> (digit :> st(320) @@ {"A", "a"} :> st(304) @@ {":"} :> st(306)
                @@ {"]"} :> st(236))
       @@ 323 :> ((xdigit \ {"0"}) :> st(304) @@ {"0"} :> st(320) @@ {":"} :> st(306)
                @@ {"]"} :> st(236))
       @@ 324 :> (xdigit :> st(303) @@ {":"} :> st(306) @@ {"]"} :> st(236))
       @@ 325 :> ((digit \ {"1", "2"}) :> st(302) @@ {"x02", "x03"} :> st(223)
                @@ {"A", "a"} :> st(324) @@ {"1"} :> st(318) @@ {"2"} :> st(321))
       @@ 326 :> ((digit \ {"1", "2"}) :> st(327) @@ {"x02", "x03"} :> st(223)
                @@ {"A", "a"} :> st(337) @@ {"1"} :> st(331) @@ {"2"} :> st(334))
       @@ 327 :> (xdigit :> st(328) @@ {"."} :> st(230) @@ {":"} :> st(306))]

St328_St336 ==
  [tr |-> None,
   st |-> 328 :> (xdigit :> st(329) @@ {":"} :> st(306))
       @@ 329 :> (xdigit :> st(330) @@ {":"} :> st(306))
       @@ 330 :> ({":"} :> st(306))
       @@ 331 :> (digit :> st(332) @@ {"A", "a"} :> st(328) @@ {"."} :> st(230)
                @@ {":"} :> st(306))
       @@ 332 :> (digit :> st(333) @@ {"A", "a"} :> st(329) @@ {"."} :> st(230)
                @@ {":"} :> st(306))
       @@ 333 :> (xdigit :> st(330) @@ {"."} :> st(230) @@ {":"} :> st(306))
       @@ 334 :> ((xdigit \ {"0", "5"}) :> st(328) @@ {"."} :> st(230) @@ {"0"} :> st(335)
                @@ {"5"} :> st(336) @@ {":"} :> st(306))
       @@ 335 :> (digit :> st(333) @@ {"A", "a"} :> st(329) @@ {":"} :> st(306))
       @@ 336 :> ((xdigit \ {"0"}) :> st(329) @@ {"0"} :> st(333) @@ {":"} :> st(306))]

St337_St345 ==
  [tr |-> None,
   st |-> 337 :> (xdigit :> st(328) @@ {":"} :> st(306))
       @@ 338 :> (xdigit :> st(224) @@ {"x02", "x03"} :> st(223))
       @@ 339 :> ({"x02", "x03"} :> st(223))
       @@ 340 :> ({"x03"} :> st(223))
       @@ 341 :> ({"x04"} :> st(223))
       @@ 342 :> ({":"} :> st(343))
       @@ 343 :> ({"x02", "x03", "x04", "x05"} :> st(223) @@ (digit \ {"1", "2"}) :> st(302)
                @@ {"A", "a"} :> st(324) @@ {"1"} :> st(318) @@ {"2"} :> st(321)
                @@ {"]"} :> st(236))
       @@ 344 :> (xdigit :> st(345))
       @@ 345 :> (xdigit :> st(345) @@ {"."} :> st(346))]

St346_St347 ==
  [tr |-> None,
   st |-> 346 :> ((reg_char \cup {":"}) :> st(347))
       @@ 347 :> ((reg_char \cup {":"}) :> st(347) @@ {"]"} :> st(236))]

Blocks ==
    <<St1_Tr54, Tr58_Tr23, St14_Tr36, St348_Tr8, Tr39_Tr45, St22_St28, Tr11_St31,
      St32_St34, St35_St38, St39_St42, St43_St50, St51_St64, St65_St80, St81_St89,
      St90_St100, St101_St111, St112_St122, St123_St131, St132_St139, St140_St147,
      St148_St156, St157_St167, St168_Tr12, St173_St177, St178_St189, St190_Tr227,
      Tr235_St201, St202_St207, St208_St210, St211_St215, St216_St221, St222_St232,
      St233_St249, St250_St260, St261_St270, St271_St281, St282_St292, St293_St302,
      St303_St311, St312_St319, St320_St327, St328_St336, St337_St345, St346_St347>>
Machine == [st |-> Merge(Blocks, "st"), tr |-> Merge(Blocks, "tr")]

=============================================================================
