------------------------------ MODULE X86Tables -----------------------------
(***************************************************************************)
(* The instruction database of the bundled diStorm, distorm3.2-package/    *)
(* src/insts.c, as data.                                                   *)
(*                                                                         *)
(* InstructionsTree is a trie kept in one array: a node is a number of 16  *)
(* bits, its type in the upper three and an index in the lower thirteen    *)
(* (instructions.h:433).  The index leads to another part of the array     *)
(* (LIST types) or to a row of InstInfos or InstInfosEx.  The array is     *)
(* given in pages of 144 nodes, the two tables in pages of 124 and 128     *)
(* rows.                                                                   *)
(*                                                                         *)
(* A row of InstInfos is << flagsIndex, s, d, meta, opcodeId >>; a row of  *)
(* InstInfosEx goes on with << flagsEx, op3, op4, opcodeId2, opcodeId3 >>. *)
(* FlagsTable holds the numbers of the bits that are set.                  *)
(***************************************************************************)
EXTENDS Integers, Sequences


FlagsTable == <<
  {0},{0,24,25},{},{},{0,3,21},{0,4,31},{31},{10,23},{10,23,31},{7,23},{8,23},{8,23,31},{9,23},
  {9,23,31},{23},{0},{},{23,31},{24},{24,31},{15,23},{0,23},{0,24},{0,17,31},{13,24},{5,6},
  {2,5,6},{0,31},{16,26},{15,24},{5,6,31},{2,5,6,24,25,31},{2,5,6,24,25},{24,25,31},{15,24,25},
  {9},{14,15},{14,16,26},{3},{0,3,24,31},{0,3},{0,3,31},{3,11,24},{3,11,24,31},{0,3,17,31},
  {3,12,24},{3,12,24,31},{0,3,4,31},{0,3,24,25},{0,3,24,25,31},{3,24,25,31},{0,4,30,31},{0,30},
  {0,4,23,30,31},{0,23,30},{0,3,4,30,31},{0,24,30,31},{0,30,31},{30},{3,30},{0,3,30},{0,24,30},
  {0,24,25,30},{0,1,30,31},{0,1,30},{27,30},{0,3,21},{0,3,29},{0,3,17,29,30},{0,3,29,30},
  {0,3,16,19,31},{0,3,16,17,19,29},{0,3,17,29},{0,3,20,31},{0,3,20,24,29},{0,3,24,25,26,31},
  {0,3,17},{3,29},{0,3,24},{0,3,17,28},{0,3,17,18,20},{0,3,20},{0,3,24,25,26,30},
  {0,3,16,19,24,25,26,30},{0,3,16,19,30},{0,3,13,31},{0,3,30,31},{0,13},{0,13,31},{0,3,16,22},
  {0,3,17,22,29},{0,3,17,18,29},{0,3,17,20},{0,3,17,24,29},{0,3,4,24,25,26,30,31},{0,3,20,29},
  {0,3,13,30},{3,13,30},{0,3,17,26},{0,3,20,30},{0,3,17,20,29,30},{0,3,24,30} >>

InstInfos_00 == <<
  <<5,9,15,8,11>>,<<5,11,17,8,11>>,<<5,15,9,8,11>>,<<5,17,11,8,11>>,<<6,1,33,8,11>>,
  <<6,3,35,8,11>>,<<7,0,32,8,16>>,<<8,0,32,8,22>>,<<5,9,15,8,27>>,<<5,11,17,8,27>>,
  <<5,15,9,8,27>>,<<5,17,11,8,27>>,<<6,1,33,8,27>>,<<6,3,35,8,27>>,<<9,0,32,8,16>>,
  <<5,9,15,8,31>>,<<5,11,17,8,31>>,<<5,15,9,8,31>>,<<5,17,11,8,31>>,<<6,1,33,8,31>>,
  <<6,3,35,8,31>>,<<10,0,32,8,16>>,<<11,0,32,8,22>>,<<5,9,15,8,36>>,<<5,11,17,8,36>>,
  <<5,15,9,8,36>>,<<5,17,11,8,36>>,<<6,1,33,8,36>>,<<6,3,35,8,36>>,<<12,0,32,8,16>>,
  <<13,0,32,8,22>>,<<5,9,15,8,41>>,<<5,11,17,8,41>>,<<5,15,9,8,41>>,<<5,17,11,8,41>>,
  <<6,1,33,8,41>>,<<6,3,35,8,41>>,<<14,0,0,8,46>>,<<5,9,15,8,51>>,<<5,11,17,8,51>>,
  <<5,15,9,8,51>>,<<5,17,11,8,51>>,<<6,1,33,8,51>>,<<6,3,35,8,51>>,<<14,0,0,8,56>>,
  <<5,9,15,8,61>>,<<5,11,17,8,61>>,<<5,15,9,8,61>>,<<5,17,11,8,61>>,<<6,1,33,8,61>>,
  <<6,3,35,8,61>>,<<14,0,0,8,66>>,<<15,9,15,8,71>>,<<15,11,17,8,71>>,<<15,15,9,8,71>>,
  <<15,17,11,8,71>>,<<16,1,33,8,71>>,<<16,3,35,8,71>>,<<14,0,0,8,76>>,<<17,0,54,8,81>>,
  <<17,0,54,8,81>>,<<17,0,54,8,81>>,<<17,0,54,8,81>>,<<17,0,54,8,81>>,<<17,0,54,8,81>>,
  <<17,0,54,8,81>>,<<17,0,54,8,81>>,<<17,0,54,8,86>>,<<17,0,54,8,86>>,<<17,0,54,8,86>>,
  <<17,0,54,8,86>>,<<17,0,54,8,86>>,<<17,0,54,8,86>>,<<17,0,54,8,86>>,<<17,0,54,8,86>>,
  <<18,0,54,8,16>>,<<18,0,54,8,16>>,<<18,0,54,8,16>>,<<18,0,54,8,16>>,<<18,0,54,8,16>>,
  <<18,0,54,8,16>>,<<18,0,54,8,16>>,<<18,0,54,8,16>>,<<19,0,54,8,22>>,<<19,0,54,8,22>>,
  <<19,0,54,8,22>>,<<19,0,54,8,22>>,<<19,0,54,8,22>>,<<19,0,54,8,22>>,<<19,0,54,8,22>>,
  <<19,0,54,8,22>>,<<20,0,0,8,91>>,<<20,0,0,8,98>>,<<21,42,11,8,104>>,<<22,10,16,8,111>>,
  <<18,0,3,8,16>>,<<24,0,5,8,16>>,<<25,59,56,8,123>>,<<26,59,56,8,123>>,<<25,55,59,8,128>>,
  <<26,55,59,8,128>>,<<18,0,40,13,134>>,<<18,0,40,13,138>>,<<18,0,40,13,143>>,
  <<18,0,40,13,147>>,<<18,0,40,13,152>>,<<18,0,40,13,156>>,<<18,0,40,13,161>>,
  <<18,0,40,13,166>>,<<18,0,40,13,170>>,<<18,0,40,13,174>>,<<18,0,40,13,179>>,
  <<18,0,40,13,183>>,<<18,0,40,13,188>>,<<18,0,40,13,192>>,<<18,0,40,13,197>>,
  <<18,0,40,13,202>>,<<15,9,15,8,206>>,<<15,11,17,8,206>>,<<5,9,15,8,212>>,<<5,11,17,8,212>>,
  <<27,9,15,8,218>>,<<27,11,17,8,218>>,<<27,15,9,8,218>> >>

InstInfos_01 == <<
  <<27,17,11,8,218>>,<<27,31,28,8,218>>,<<27,42,11,8,223>>,<<27,28,31,8,218>>,<<6,35,54,8,212>>,
  <<6,35,54,8,212>>,<<6,35,54,8,212>>,<<6,35,54,8,212>>,<<6,35,54,8,212>>,<<6,35,54,8,212>>,
  <<6,35,54,8,212>>,<<6,35,54,8,212>>,<<14,0,38,9,260>>,<<29,0,0,8,270>>,<<29,0,0,8,277>>,
  <<16,0,0,8,283>>,<<16,0,0,8,289>>,<<6,49,33,8,218>>,<<6,50,35,8,218>>,<<6,33,49,8,218>>,
  <<6,35,50,8,218>>,<<30,55,56,8,295>>,<<31,55,56,8,295>>,<<25,56,55,8,301>>,<<32,56,55,8,301>>,
  <<16,1,33,8,206>>,<<16,3,35,8,206>>,<<25,33,56,8,307>>,<<32,35,56,8,307>>,<<25,55,33,8,313>>,
  <<32,55,35,8,313>>,<<25,33,56,8,319>>,<<32,35,56,8,319>>,<<6,1,53,8,218>>,<<6,1,53,8,218>>,
  <<6,1,53,8,218>>,<<6,1,53,8,218>>,<<6,1,53,8,218>>,<<6,1,53,8,218>>,<<6,1,53,8,218>>,
  <<6,1,53,8,218>>,<<33,3,54,8,218>>,<<33,3,54,8,218>>,<<33,3,54,8,218>>,<<33,3,54,8,218>>,
  <<33,3,54,8,218>>,<<33,3,54,8,218>>,<<33,3,54,8,218>>,<<33,3,54,8,218>>,<<18,0,2,10,325>>,
  <<18,0,0,10,325>>,<<21,37,11,8,330>>,<<21,37,11,8,335>>,<<18,8,6,8,340>>,<<18,0,0,8,347>>,
  <<34,0,2,10,354>>,<<34,0,0,10,354>>,<<16,0,0,14,360>>,<<16,0,1,14,367>>,<<14,0,0,14,372>>,
  <<34,0,0,10,378>>,<<14,0,1,8,384>>,<<14,0,1,8,389>>,<<14,0,0,8,394>>,<<35,0,57,8,400>>,
  <<36,0,40,13,406>>,<<36,0,40,13,414>>,<<36,0,40,13,421>>,<<6,1,33,8,447>>,<<6,1,36,8,447>>,
  <<16,33,1,8,451>>,<<16,36,1,8,451>>,<<18,0,41,9,456>>,<<18,0,41,12,462>>,<<14,0,38,12,467>>,
  <<18,0,40,12,462>>,<<6,59,33,8,447>>,<<6,59,36,8,447>>,<<16,33,59,8,451>>,<<16,36,59,8,451>>,
  <<16,0,0,14,476>>,<<16,0,0,8,482>>,<<16,0,0,8,487>>,<<16,0,0,8,492>>,<<16,0,0,8,497>>,
  <<16,0,0,8,502>>,<<16,0,0,8,507>>,<<16,0,0,8,512>>,<<16,0,0,8,517>>,<<15,16,11,8,522>>,
  <<15,16,11,8,527>>,<<38,0,0,27,532>>,<<38,0,0,8,541>>,<<38,0,0,27,547>>,<<38,0,0,8,555>>,
  <<38,0,0,8,561>>,<<38,0,0,14,569>>,<<16,0,0,96,574>>,<<15,0,17,8,581>>,<<39,29,14,8,218>>,
  <<39,30,14,8,218>>,<<39,14,29,8,218>>,<<39,14,30,8,218>>,<<38,0,0,8,586>>,<<38,0,0,8,593>>,
  <<38,0,0,8,600>>,<<38,0,0,8,607>>,<<38,0,0,27,614>>,<<38,0,0,27,624>>,<<40,0,0,8,633>>,
  <<41,17,11,31,641>>,<<41,17,11,31,648>>,<<41,17,11,31,656>>,<<41,17,11,31,663>>,
  <<41,17,11,31,671>>,<<41,17,11,31,678>>,<<41,17,11,31,686>>,<<41,17,11,31,694>>,
  <<41,17,11,31,701>>,<<41,17,11,31,708>>,<<41,17,11,31,716>>,<<41,17,11,31,723>>,
  <<41,17,11,31,731>>,<<41,17,11,31,738>> >>

InstInfos_02 == <<
  <<41,17,11,31,746>>,<<41,17,11,31,754>>,<<38,0,41,13,134>>,<<38,0,41,13,138>>,
  <<38,0,41,13,143>>,<<38,0,41,13,147>>,<<38,0,41,13,152>>,<<38,0,41,13,156>>,
  <<38,0,41,13,161>>,<<38,0,41,13,166>>,<<38,0,41,13,170>>,<<38,0,41,13,174>>,
  <<38,0,41,13,179>>,<<38,0,41,13,183>>,<<38,0,41,13,188>>,<<38,0,41,13,192>>,
  <<38,0,41,13,197>>,<<38,0,41,13,202>>,<<41,0,15,8,761>>,<<41,0,15,8,767>>,<<41,0,15,8,774>>,
  <<41,0,15,8,780>>,<<41,0,15,8,787>>,<<41,0,15,8,793>>,<<41,0,15,8,800>>,<<41,0,15,8,807>>,
  <<41,0,15,8,813>>,<<41,0,15,8,819>>,<<41,0,15,8,826>>,<<41,0,15,8,832>>,<<41,0,15,8,839>>,
  <<41,0,15,8,845>>,<<41,0,15,8,852>>,<<41,0,15,8,859>>,<<42,0,32,8,16>>,<<43,0,32,8,22>>,
  <<38,0,0,8,865>>,<<41,11,17,8,872>>,<<45,0,32,8,16>>,<<46,0,32,8,22>>,<<38,0,0,8,882>>,
  <<47,11,17,8,887>>,<<41,17,11,8,117>>,<<47,9,15,8,898>>,<<47,11,17,8,898>>,<<48,37,11,8,907>>,
  <<47,11,17,8,912>>,<<48,37,11,8,917>>,<<48,37,11,8,922>>,<<41,15,11,8,927>>,
  <<49,16,11,8,927>>,<<38,0,0,14,569>>,<<47,11,17,8,934>>,<<41,15,11,8,939>>,<<49,16,11,8,939>>,
  <<47,9,15,8,946>>,<<47,11,17,8,946>>,<<49,13,45,48,952>>,<<50,0,54,8,960>>,<<50,0,54,8,960>>,
  <<50,0,54,8,960>>,<<50,0,54,8,960>>,<<50,0,54,8,960>>,<<50,0,54,8,960>>,<<50,0,54,8,960>>,
  <<50,0,54,8,960>>,<<51,1,15,8,11>>,<<51,1,15,8,27>>,<<51,1,15,8,31>>,<<51,1,15,8,36>>,
  <<51,1,15,8,41>>,<<51,1,15,8,51>>,<<51,1,15,8,61>>,<<52,1,15,8,71>>,<<51,3,17,8,11>>,
  <<51,3,17,8,27>>,<<51,3,17,8,31>>,<<51,3,17,8,36>>,<<51,3,17,8,41>>,<<51,3,17,8,51>>,
  <<51,3,17,8,61>>,<<52,3,17,8,71>>,<<53,1,15,8,11>>,<<53,1,15,8,27>>,<<53,1,15,8,31>>,
  <<53,1,15,8,36>>,<<53,1,15,8,41>>,<<53,1,15,8,51>>,<<53,1,15,8,61>>,<<54,1,15,8,71>>,
  <<51,5,17,8,11>>,<<55,5,17,8,27>>,<<51,5,17,8,31>>,<<51,5,17,8,36>>,<<55,5,17,8,41>>,
  <<51,5,17,8,51>>,<<55,5,17,8,61>>,<<52,5,17,8,71>>,<<56,0,17,8,22>>,<<57,1,15,8,967>>,
  <<57,1,15,8,972>>,<<57,1,15,8,977>>,<<57,1,15,8,982>>,<<57,1,15,8,987>>,<<57,1,15,8,992>>,
  <<57,1,15,8,997>>,<<57,1,15,8,1002>>,<<57,1,17,8,967>>,<<57,1,17,8,972>>,<<57,1,17,8,977>>,
  <<57,1,17,8,982>>,<<57,1,17,8,987>>,<<57,1,17,8,992>>,<<57,1,17,8,997>>,<<57,1,17,8,1002>>,
  <<57,1,15,8,218>>,<<57,3,17,8,218>>,<<57,51,15,8,967>>,<<57,51,15,8,972>>,<<57,51,15,8,977>>,
  <<57,51,15,8,982>>,<<57,51,15,8,987>>,<<57,51,15,8,992>>,<<57,51,15,8,997>> >>

InstInfos_03 == <<
  <<57,51,15,8,1002>>,<<57,51,17,8,967>>,<<57,51,17,8,972>>,<<57,51,17,8,977>>,
  <<57,51,17,8,982>>,<<57,51,17,8,987>>,<<57,51,17,8,992>>,<<57,51,17,8,997>>,
  <<57,51,17,8,1002>>,<<57,52,15,8,967>>,<<57,52,15,8,972>>,<<57,52,15,8,977>>,
  <<57,52,15,8,982>>,<<57,52,15,8,987>>,<<57,52,15,8,992>>,<<57,52,15,8,997>>,
  <<57,52,15,8,1002>>,<<57,52,17,8,967>>,<<57,52,17,8,972>>,<<57,52,17,8,977>>,
  <<57,52,17,8,982>>,<<57,52,17,8,987>>,<<57,52,17,8,992>>,<<57,52,17,8,997>>,
  <<57,52,17,8,1002>>,<<52,0,21,16,1007>>,<<52,0,21,16,1013>>,<<52,0,21,16,1019>>,
  <<52,0,21,16,1025>>,<<52,0,21,16,1032>>,<<52,0,21,16,1038>>,<<52,0,21,16,1045>>,
  <<52,0,21,16,1051>>,<<58,0,62,16,1007>>,<<58,0,62,16,1007>>,<<58,0,62,16,1007>>,
  <<58,0,62,16,1007>>,<<58,0,62,16,1007>>,<<58,0,62,16,1007>>,<<58,0,62,16,1007>>,
  <<58,0,62,16,1007>>,<<58,0,62,16,1013>>,<<58,0,62,16,1013>>,<<58,0,62,16,1013>>,
  <<58,0,62,16,1013>>,<<58,0,62,16,1013>>,<<58,0,62,16,1013>>,<<58,0,62,16,1013>>,
  <<58,0,62,16,1013>>,<<58,0,61,16,1019>>,<<58,0,61,16,1019>>,<<58,0,61,16,1019>>,
  <<58,0,61,16,1019>>,<<58,0,61,16,1019>>,<<58,0,61,16,1019>>,<<58,0,61,16,1019>>,
  <<58,0,61,16,1019>>,<<58,0,61,16,1025>>,<<58,0,0,16,1025>>,<<58,0,61,16,1025>>,
  <<58,0,61,16,1025>>,<<58,0,61,16,1025>>,<<58,0,61,16,1025>>,<<58,0,61,16,1025>>,
  <<58,0,61,16,1025>>,<<58,0,62,16,1032>>,<<58,0,62,16,1032>>,<<58,0,62,16,1032>>,
  <<58,0,62,16,1032>>,<<58,0,62,16,1032>>,<<58,0,62,16,1032>>,<<58,0,62,16,1032>>,
  <<58,0,62,16,1032>>,<<58,0,62,16,1038>>,<<58,0,62,16,1038>>,<<58,0,62,16,1038>>,
  <<58,0,62,16,1038>>,<<58,0,62,16,1038>>,<<58,0,62,16,1038>>,<<58,0,62,16,1038>>,
  <<58,0,62,16,1038>>,<<58,0,62,16,1045>>,<<58,0,62,16,1045>>,<<58,0,62,16,1045>>,
  <<58,0,62,16,1045>>,<<58,0,62,16,1045>>,<<58,0,62,16,1045>>,<<58,0,62,16,1045>>,
  <<58,0,62,16,1045>>,<<58,0,62,16,1051>>,<<58,0,62,16,1051>>,<<58,0,62,16,1051>>,
  <<58,0,62,16,1051>>,<<58,0,62,16,1051>>,<<58,0,62,16,1051>>,<<58,0,62,16,1051>>,
  <<58,0,62,16,1051>>,<<52,0,21,16,1058>>,<<52,0,21,16,1063>>,<<52,0,21,16,1068>>,
  <<52,0,42,16,1074>>,<<52,0,42,16,1082>>,<<58,0,61,16,1058>>,<<58,0,61,16,1058>>,
  <<58,0,61,16,1058>>,<<58,0,61,16,1058>>,<<58,0,61,16,1058>>,<<58,0,61,16,1058>>,
  <<58,0,61,16,1058>>,<<58,0,61,16,1058>>,<<58,0,61,16,1089>>,<<58,0,0,16,1089>>,
  <<58,0,61,16,1089>>,<<58,0,61,16,1089>>,<<58,0,61,16,1089>>,<<58,0,61,16,1089>>,
  <<58,0,61,16,1089>>,<<58,0,61,16,1089>>,<<58,0,0,16,1095>>,<<58,0,0,16,1101>>,
  <<58,0,0,16,1107>>,<<58,0,0,16,1113>>,<<58,0,0,16,1119>>,<<58,0,0,16,1125>> >>

InstInfos_04 == <<
  <<58,0,0,16,1131>>,<<58,0,0,16,1139>>,<<58,0,0,16,1147>>,<<58,0,0,16,1154>>,
  <<58,0,0,16,1162>>,<<58,0,0,16,1170>>,<<58,0,0,16,1176>>,<<58,0,0,16,1183>>,
  <<58,0,0,16,1190>>,<<58,0,0,16,1197>>,<<58,0,0,16,1205>>,<<58,0,0,16,1214>>,
  <<58,0,0,16,1222>>,<<58,0,0,16,1231>>,<<58,0,0,16,1240>>,<<58,0,0,16,1247>>,
  <<58,0,0,16,1256>>,<<58,0,0,16,1263>>,<<58,0,0,16,1272>>,<<58,0,0,16,1281>>,
  <<58,0,0,16,1289>>,<<58,0,0,16,1295>>,<<52,0,21,16,1301>>,<<52,0,21,16,1308>>,
  <<52,0,21,16,1315>>,<<52,0,21,16,1322>>,<<52,0,21,16,1330>>,<<52,0,21,16,1337>>,
  <<52,0,21,16,1345>>,<<52,0,21,16,1352>>,<<59,0,62,24,1360>>,<<59,0,62,24,1360>>,
  <<59,0,62,24,1360>>,<<59,0,62,24,1360>>,<<59,0,62,24,1360>>,<<59,0,62,24,1360>>,
  <<59,0,62,24,1360>>,<<59,0,62,24,1360>>,<<59,0,62,24,1368>>,<<59,0,62,24,1368>>,
  <<59,0,62,24,1368>>,<<59,0,62,24,1368>>,<<59,0,62,24,1368>>,<<59,0,62,24,1368>>,
  <<59,0,62,24,1368>>,<<59,0,62,24,1368>>,<<59,0,62,24,1376>>,<<59,0,62,24,1376>>,
  <<59,0,62,24,1376>>,<<59,0,62,24,1376>>,<<59,0,62,24,1376>>,<<59,0,62,24,1376>>,
  <<59,0,62,24,1376>>,<<59,0,62,24,1376>>,<<59,0,62,24,1385>>,<<59,0,62,24,1385>>,
  <<59,0,62,24,1385>>,<<59,0,62,24,1385>>,<<59,0,62,24,1385>>,<<59,0,62,24,1385>>,
  <<59,0,62,24,1385>>,<<59,0,62,24,1385>>,<<58,0,0,16,1393>>,<<52,0,21,16,1402>>,
  <<60,0,21,56,1408>>,<<52,0,21,16,1416>>,<<52,0,21,16,1422>>,<<52,0,23,16,1058>>,
  <<52,0,23,16,1068>>,<<59,0,62,24,1429>>,<<59,0,62,24,1429>>,<<59,0,62,24,1429>>,
  <<59,0,62,24,1429>>,<<59,0,62,24,1429>>,<<59,0,62,24,1429>>,<<59,0,62,24,1429>>,
  <<59,0,62,24,1429>>,<<59,0,62,24,1438>>,<<59,0,62,24,1438>>,<<59,0,62,24,1438>>,
  <<59,0,62,24,1438>>,<<59,0,62,24,1438>>,<<59,0,62,24,1438>>,<<59,0,62,24,1438>>,
  <<59,0,62,24,1438>>,<<59,0,62,24,1447>>,<<59,0,62,24,1447>>,<<59,0,62,24,1447>>,
  <<59,0,62,24,1447>>,<<59,0,62,24,1447>>,<<59,0,62,24,1447>>,<<59,0,62,24,1447>>,
  <<59,0,62,24,1447>>,<<59,0,62,24,1457>>,<<59,0,62,24,1457>>,<<59,0,62,24,1457>>,
  <<59,0,62,24,1457>>,<<59,0,62,24,1457>>,<<59,0,62,24,1457>>,<<59,0,62,24,1457>>,
  <<59,0,62,24,1457>>,<<58,0,0,16,1466>>,<<58,0,0,16,1472>>,<<58,0,0,16,1480>>,
  <<59,0,62,16,1488>>,<<59,0,62,16,1488>>,<<59,0,62,16,1488>>,<<59,0,62,16,1488>>,
  <<59,0,62,16,1488>>,<<59,0,62,16,1488>>,<<59,0,62,16,1488>>,<<59,0,62,16,1488>>,
  <<59,0,62,24,1496>>,<<59,0,62,24,1496>>,<<59,0,62,24,1496>>,<<59,0,62,24,1496>>,
  <<59,0,62,24,1496>>,<<59,0,62,24,1496>>,<<59,0,62,24,1496>>,<<59,0,62,24,1496>>,
  <<52,0,22,16,1007>>,<<52,0,22,16,1013>>,<<52,0,22,16,1019>>,<<52,0,22,16,1025>> >>

InstInfos_05 == <<
  <<52,0,22,16,1032>>,<<52,0,22,16,1038>>,<<52,0,22,16,1045>>,<<52,0,22,16,1051>>,
  <<58,0,63,16,1007>>,<<58,0,63,16,1007>>,<<58,0,63,16,1007>>,<<58,0,63,16,1007>>,
  <<58,0,63,16,1007>>,<<58,0,63,16,1007>>,<<58,0,63,16,1007>>,<<58,0,63,16,1007>>,
  <<58,0,63,16,1013>>,<<58,0,63,16,1013>>,<<58,0,63,16,1013>>,<<58,0,63,16,1013>>,
  <<58,0,63,16,1013>>,<<58,0,63,16,1013>>,<<58,0,63,16,1013>>,<<58,0,63,16,1013>>,
  <<58,0,63,16,1038>>,<<58,0,63,16,1038>>,<<58,0,63,16,1038>>,<<58,0,63,16,1038>>,
  <<58,0,63,16,1038>>,<<58,0,63,16,1038>>,<<58,0,63,16,1038>>,<<58,0,63,16,1038>>,
  <<58,0,63,16,1032>>,<<58,0,63,16,1032>>,<<58,0,63,16,1032>>,<<58,0,63,16,1032>>,
  <<58,0,63,16,1032>>,<<58,0,63,16,1032>>,<<58,0,63,16,1032>>,<<58,0,63,16,1032>>,
  <<58,0,63,16,1051>>,<<58,0,63,16,1051>>,<<58,0,63,16,1051>>,<<58,0,63,16,1051>>,
  <<58,0,63,16,1051>>,<<58,0,63,16,1051>>,<<58,0,63,16,1051>>,<<58,0,63,16,1051>>,
  <<58,0,63,16,1045>>,<<58,0,63,16,1045>>,<<58,0,63,16,1045>>,<<58,0,63,16,1045>>,
  <<58,0,63,16,1045>>,<<58,0,63,16,1045>>,<<58,0,63,16,1045>>,<<58,0,63,16,1045>>,
  <<52,0,22,16,1058>>,<<60,0,22,56,1408>>,<<52,0,22,16,1063>>,<<52,0,22,16,1068>>,
  <<52,0,42,16,1503>>,<<58,0,61,16,1511>>,<<58,0,61,16,1511>>,<<58,0,61,16,1511>>,
  <<58,0,61,16,1511>>,<<58,0,61,16,1511>>,<<58,0,61,16,1511>>,<<58,0,61,16,1511>>,
  <<58,0,61,16,1511>>,<<58,0,61,16,1063>>,<<58,0,61,16,1063>>,<<58,0,61,16,1063>>,
  <<58,0,61,16,1063>>,<<58,0,61,16,1063>>,<<58,0,61,16,1063>>,<<58,0,61,16,1063>>,
  <<58,0,61,16,1063>>,<<58,0,61,16,1068>>,<<58,0,61,16,1068>>,<<58,0,61,16,1068>>,
  <<58,0,61,16,1068>>,<<58,0,61,16,1068>>,<<58,0,61,16,1068>>,<<58,0,61,16,1068>>,
  <<58,0,61,16,1068>>,<<58,0,63,16,1518>>,<<58,0,0,16,1518>>,<<58,0,63,16,1518>>,
  <<58,0,63,16,1518>>,<<58,0,63,16,1518>>,<<58,0,63,16,1518>>,<<58,0,63,16,1518>>,
  <<58,0,63,16,1518>>,<<58,0,61,16,1525>>,<<58,0,0,16,1525>>,<<58,0,61,16,1525>>,
  <<58,0,61,16,1525>>,<<58,0,61,16,1525>>,<<58,0,61,16,1525>>,<<58,0,61,16,1525>>,
  <<58,0,61,16,1525>>,<<52,0,20,16,1301>>,<<52,0,20,16,1308>>,<<52,0,20,16,1315>>,
  <<52,0,20,16,1322>>,<<52,0,20,16,1330>>,<<52,0,20,16,1337>>,<<52,0,20,16,1345>>,
  <<52,0,20,16,1352>>,<<58,0,63,16,1533>>,<<58,0,0,16,1533>>,<<58,0,63,16,1533>>,
  <<58,0,63,16,1533>>,<<58,0,63,16,1533>>,<<58,0,63,16,1533>>,<<58,0,63,16,1533>>,
  <<58,0,63,16,1533>>,<<58,0,63,16,1540>>,<<58,0,0,16,1540>>,<<58,0,63,16,1540>>,
  <<58,0,63,16,1540>>,<<58,0,63,16,1540>>,<<58,0,63,16,1540>>,<<58,0,63,16,1540>>,
  <<58,0,63,16,1540>>,<<58,0,0,16,1547>>,<<58,0,63,16,1555>>,<<58,0,0,16,1555>> >>

InstInfos_06 == <<
  <<58,0,63,16,1555>>,<<58,0,63,16,1555>>,<<58,0,63,16,1555>>,<<58,0,63,16,1555>>,
  <<58,0,63,16,1555>>,<<58,0,63,16,1555>>,<<58,0,63,16,1563>>,<<58,0,0,16,1563>>,
  <<58,0,63,16,1563>>,<<58,0,63,16,1563>>,<<58,0,63,16,1563>>,<<58,0,63,16,1563>>,
  <<58,0,63,16,1563>>,<<58,0,63,16,1563>>,<<58,0,63,16,1570>>,<<58,0,0,16,1570>>,
  <<58,0,63,16,1570>>,<<58,0,63,16,1570>>,<<58,0,63,16,1570>>,<<58,0,63,16,1570>>,
  <<58,0,63,16,1570>>,<<58,0,63,16,1570>>,<<58,0,63,16,1578>>,<<58,0,0,16,1578>>,
  <<58,0,63,16,1578>>,<<58,0,63,16,1578>>,<<58,0,63,16,1578>>,<<58,0,63,16,1578>>,
  <<58,0,63,16,1578>>,<<58,0,63,16,1578>>,<<52,0,20,16,1402>>,<<60,0,20,56,1408>>,
  <<52,0,20,16,1416>>,<<52,0,20,16,1422>>,<<52,0,23,16,1585>>,<<52,0,22,16,1402>>,
  <<52,0,23,16,1591>>,<<52,0,22,16,1422>>,<<59,0,62,16,1598>>,<<59,0,62,16,1598>>,
  <<59,0,62,16,1598>>,<<59,0,62,16,1598>>,<<59,0,62,16,1598>>,<<59,0,62,16,1598>>,
  <<59,0,62,16,1598>>,<<59,0,62,16,1598>>,<<59,0,62,16,1607>>,<<59,0,62,16,1607>>,
  <<59,0,62,16,1607>>,<<59,0,62,16,1607>>,<<59,0,62,16,1607>>,<<59,0,62,16,1607>>,
  <<59,0,62,16,1607>>,<<59,0,62,16,1607>>,<<52,1,15,8,206>>,<<51,0,15,8,1615>>,
  <<51,0,15,8,1620>>,<<57,0,15,8,1625>>,<<57,0,15,8,117>>,<<57,0,15,8,1630>>,<<57,0,15,8,1635>>,
  <<52,3,17,8,206>>,<<51,0,17,8,1615>>,<<51,0,17,8,1620>>,<<57,0,17,8,1625>>,<<57,0,17,8,117>>,
  <<57,0,17,8,1630>>,<<57,0,17,8,1635>>,<<51,0,15,8,81>>,<<51,0,15,8,86>>,<<51,0,17,8,81>>,
  <<51,0,17,8,86>>,<<61,0,17,9,456>>,<<62,0,37,9,260>>,<<61,0,17,12,462>>,<<62,0,37,12,467>>,
  <<61,0,17,8,16>>,<<52,0,17,8,1641>>,<<52,0,16,8,1647>>,<<52,0,16,8,1652>>,<<60,0,16,8,1658>>,
  <<52,0,16,8,1663>>,<<52,0,16,8,1669>>,<<61,0,39,8,1675>>,<<61,0,39,8,1681>>,
  <<61,0,39,8,1687>>,<<61,0,39,8,1693>>,<<63,0,28,8,1699>>,<<64,0,16,8,1705>>,
  <<60,0,42,8,1711>>,<<59,0,0,112,1719>>,<<59,0,0,112,1727>>,<<59,0,0,112,1737>>,
  <<59,0,0,112,1747>>,<<59,0,0,8,1755>>,<<59,0,0,8,1764>>,<<38,0,0,8,1771>>,<<38,0,0,8,1779>>,
  <<59,0,0,112,1787>>,<<60,0,58,120,1795>>,<<59,0,0,120,1802>>,<<59,0,58,120,1811>>,
  <<59,0,58,120,1819>>,<<59,0,0,120,1827>>,<<59,0,0,120,1833>>,<<59,0,58,120,1839>>,
  <<59,60,58,120,1847>>,<<65,0,0,8,1856>>,<<65,0,0,8,1864>>,<<60,0,42,96,1872>>,
  <<60,0,42,96,1882>>,<<66,67,64,104,1893>>,<<66,67,64,96,1900>>,<<66,67,64,104,1907>>,
  <<66,67,64,96,1914>>,<<66,67,64,104,1921>>,<<66,67,64,104,1929>>,<<66,67,64,96,1938>>,
  <<66,67,64,96,1947>>,<<66,67,64,96,1954>>,<<66,67,64,96,1961>>,<<66,67,64,96,1970>>,
  <<66,67,64,96,1977>>,<<66,67,64,96,1984>> >>

InstInfos_07 == <<
  <<66,67,64,96,1993>>,<<66,67,64,96,2000>>,<<66,67,64,96,2010>>,<<66,67,64,96,2020>>,
  <<66,67,64,96,2028>>,<<66,67,64,96,2035>>,<<66,67,64,96,2044>>,<<66,67,64,96,2051>>,
  <<66,67,64,96,2061>>,<<66,67,64,104,2070>>,<<66,67,64,96,2078>>,<<41,73,68,40,2087>>,
  <<41,73,68,48,2095>>,<<41,71,68,40,2103>>,<<41,72,68,48,2110>>,<<41,68,73,40,2087>>,
  <<41,68,73,48,2095>>,<<41,68,71,40,2103>>,<<41,68,72,48,2110>>,<<41,46,68,48,2168>>,
  <<41,72,68,56,2176>>,<<41,72,68,56,2186>>,<<41,68,46,40,2160>>,<<41,68,46,48,2168>>,
  <<40,73,68,40,2244>>,<<40,73,68,48,2254>>,<<40,73,68,40,2286>>,<<40,73,68,48,2296>>,
  <<41,46,68,48,2345>>,<<41,73,68,56,2353>>,<<41,68,46,40,2337>>,<<41,68,46,48,2345>>,
  <<60,0,42,40,2402>>,<<60,0,42,40,2415>>,<<60,0,42,40,2427>>,<<60,0,42,40,2439>>,
  <<41,73,68,40,2451>>,<<41,73,68,48,2459>>,<<41,68,73,40,2451>>,<<41,68,73,48,2459>>,
  <<40,67,68,40,2485>>,<<40,67,68,48,2495>>,<<48,18,68,40,2505>>,<<48,18,68,48,2515>>,
  <<41,68,47,40,2547>>,<<41,68,47,48,2556>>,<<41,68,44,88,2565>>,<<41,68,46,88,2574>>,
  <<40,72,64,40,2603>>,<<40,73,64,48,2614>>,<<48,71,13,40,2625>>,<<48,72,13,48,2636>>,
  <<40,72,64,40,2671>>,<<40,73,68,48,2681>>,<<48,71,13,40,2691>>,<<48,72,13,48,2701>>,
  <<40,71,68,40,2733>>,<<40,72,68,48,2742>>,<<40,71,68,40,2771>>,<<40,72,68,48,2779>>,
  <<73,69,12,40,2805>>,<<73,69,12,48,2815>>,<<40,73,68,40,2847>>,<<40,73,68,48,2855>>,
  <<40,71,68,40,2863>>,<<40,72,68,48,2871>>,<<40,73,68,40,2915>>,<<40,71,68,40,2924>>,
  <<40,73,68,40,2953>>,<<40,71,68,40,2960>>,<<40,73,68,40,2983>>,<<40,73,68,48,2990>>,
  <<40,73,68,40,3013>>,<<40,73,68,48,3021>>,<<40,73,68,40,3047>>,<<40,73,68,48,3053>>,
  <<40,73,68,40,3073>>,<<40,73,68,48,3080>>,<<40,73,68,40,3103>>,<<40,73,68,48,3110>>,
  <<40,71,68,40,3117>>,<<40,72,68,48,3124>>,<<40,73,68,40,3163>>,<<40,73,68,48,3170>>,
  <<40,71,68,40,3177>>,<<40,72,68,48,3184>>,<<40,72,68,48,3223>>,<<40,73,68,48,3233>>,
  <<40,71,68,48,3243>>,<<40,72,68,48,3253>>,<<40,73,68,48,3307>>,<<40,73,68,48,3317>>,
  <<40,73,68,48,3327>>,<<40,73,68,40,3372>>,<<40,73,68,48,3379>>,<<40,71,68,40,3386>>,
  <<40,72,68,48,3393>>,<<40,73,68,40,3432>>,<<40,73,68,48,3439>>,<<40,71,68,40,3446>>,
  <<40,72,68,48,3453>>,<<40,73,68,40,3492>>,<<40,73,68,48,3499>>,<<40,71,68,40,3506>>,
  <<40,72,68,48,3513>>,<<40,73,68,40,3552>>,<<40,73,68,48,3559>>,<<40,71,68,40,3566>>,
  <<40,72,68,48,3573>>,<<40,66,64,32,3612>>,<<40,73,68,48,3612>>,<<40,66,64,32,3635>>,
  <<40,73,68,48,3635>>,<<40,66,64,32,3658>>,<<40,73,68,48,3658>>,<<40,67,64,32,3681>>,
  <<40,73,68,48,3681>>,<<40,67,64,32,3702>>,<<40,73,68,48,3702>>,<<40,67,64,32,3721>>,
  <<40,73,68,48,3721>>,<<40,67,64,32,3740>>,<<40,73,68,48,3740>>,<<40,67,64,32,3759>> >>

InstInfos_08 == <<
  <<40,73,68,48,3759>>,<<40,67,64,32,3780>>,<<40,73,68,48,3780>>,<<40,67,64,32,3803>>,
  <<40,73,68,48,3803>>,<<40,67,64,32,3826>>,<<40,73,68,48,3826>>,<<40,67,64,32,3849>>,
  <<40,73,68,48,3849>>,<<40,73,68,48,3870>>,<<40,73,68,48,3895>>,<<41,67,64,32,3926>>,
  <<41,73,68,48,3946>>,<<41,73,68,48,3954>>,<<40,67,64,32,4043>>,<<40,73,68,48,4043>>,
  <<40,67,64,32,4062>>,<<40,73,68,48,4062>>,<<40,67,64,32,4081>>,<<40,73,68,48,4081>>,
  <<38,0,0,32,4100>>,<<78,13,18,112,4128>>,<<78,18,13,112,4152>>,<<40,69,68,88,4136>>,
  <<81,69,68,88,4143>>,<<38,72,68,112,4161>>,<<38,68,72,112,4171>>,<<40,73,68,56,4181>>,
  <<40,73,68,56,4189>>,<<40,73,68,56,4215>>,<<40,73,68,56,4223>>,<<41,72,68,48,3926>>,
  <<41,64,67,32,3926>>,<<41,68,73,48,3946>>,<<41,68,73,48,3954>>,<<85,17,11,80,4338>>,
  <<86,1,17,8,872>>,<<55,1,17,8,887>>,<<55,1,17,8,912>>,<<55,1,17,8,934>>,<<40,17,11,8,4346>>,
  <<87,17,11,112,4351>>,<<40,17,11,8,4358>>,<<88,17,11,8,4363>>,<<60,0,46,112,6385>>,
  <<40,73,68,56,6394>>,<<40,73,68,56,6404>>,<<40,67,64,32,6436>>,<<40,73,68,48,6436>>,
  <<40,67,64,32,6451>>,<<40,73,68,48,6451>>,<<40,67,64,32,6466>>,<<40,73,68,48,6466>>,
  <<40,72,68,48,6481>>,<<40,73,68,48,6481>>,<<40,67,64,32,6496>>,<<40,73,68,48,6496>>,
  <<41,68,72,48,3926>>,<<73,65,68,48,6513>>,<<73,69,64,48,6522>>,<<81,65,12,40,6531>>,
  <<81,69,12,48,6531>>,<<40,67,64,32,6552>>,<<40,73,68,48,6552>>,<<40,67,64,32,6571>>,
  <<40,73,68,48,6571>>,<<40,67,64,40,6590>>,<<40,73,68,48,6590>>,<<40,67,64,32,6607>>,
  <<40,73,68,48,6607>>,<<40,67,64,32,6620>>,<<40,73,68,48,6620>>,<<40,67,64,32,6639>>,
  <<40,73,68,48,6639>>,<<40,67,64,40,6648>>,<<40,73,68,48,6648>>,<<40,67,64,32,6665>>,
  <<40,73,68,48,6665>>,<<40,67,64,40,6680>>,<<40,73,68,48,6680>>,<<40,67,64,32,6695>>,
  <<40,73,68,48,6695>>,<<40,67,64,32,6710>>,<<40,73,68,48,6710>>,<<40,67,64,40,6725>>,
  <<40,73,68,48,6725>>,<<40,67,64,40,6740>>,<<40,73,68,48,6740>>,<<40,67,64,32,6759>>,
  <<40,73,68,48,6759>>,<<40,73,68,48,6776>>,<<40,72,68,48,6787>>,<<40,73,68,48,6797>>,
  <<41,64,46,40,6841>>,<<41,68,47,48,6849>>,<<40,67,64,32,6868>>,<<40,73,68,48,6868>>,
  <<40,67,64,32,6885>>,<<40,73,68,48,6885>>,<<40,67,64,40,6902>>,<<40,73,68,48,6902>>,
  <<40,67,64,32,6919>>,<<40,73,68,48,6919>>,<<40,67,64,32,6930>>,<<40,73,68,48,6930>>,
  <<40,67,64,32,6947>>,<<40,73,68,48,6947>>,<<40,67,64,40,6964>>,<<40,73,68,48,6964>>,
  <<40,67,64,32,6981>>,<<40,73,68,48,6981>>,<<40,42,68,56,6994>>,<<40,67,64,32,7009>>,
  <<40,73,68,48,7009>>,<<40,67,64,32,7024>>,<<40,73,68,48,7024>>,<<40,67,64,32,7039>>,
  <<40,73,68,48,7039>>,<<40,67,64,48,7054>>,<<40,73,68,48,7054>>,<<40,67,64,32,7073>>,
  <<40,73,68,48,7073>>,<<40,67,64,40,7092>>,<<40,73,68,48,7092>> >>

InstInfos_09 == <<
  <<81,65,64,40,7109>>,<<81,69,68,48,7119>>,<<40,67,64,32,7144>>,<<40,73,68,48,7144>>,
  <<40,67,64,32,7159>>,<<40,73,68,48,7159>>,<<40,67,64,32,7174>>,<<40,73,68,48,7174>>,
  <<40,67,64,48,7189>>,<<40,73,68,48,7189>>,<<40,67,64,32,7204>>,<<40,73,68,48,7204>>,
  <<40,67,64,32,7219>>,<<40,73,68,48,7219>>,<<40,67,64,32,7234>>,<<40,73,68,48,7234>>,
  <<52,0,42,16,7249>>,<<96,0,42,16,7258>>,<<52,0,42,16,7266>>,<<96,0,42,16,7274>>,
  <<58,0,0,16,7281>>,<<97,0,0,16,7289>>,<<58,0,0,16,7296>>,<<97,0,0,16,7304>>,
  <<52,0,42,16,7311>>,<<96,0,42,16,7319>>,<<52,0,42,16,7326>>,<<96,0,42,16,7334>>,
  <<58,0,34,16,7326>>,<<97,0,34,16,7334>>,<<40,67,64,64,7341>>,<<40,73,68,64,7341>>,
  <<40,67,64,64,7358>>,<<40,73,68,64,7358>>,<<40,67,64,64,7375>>,<<40,73,68,64,7375>>,
  <<40,67,64,64,7392>>,<<40,73,68,64,7392>>,<<40,67,64,64,7411>>,<<40,73,68,64,7411>>,
  <<40,67,64,64,7434>>,<<40,73,68,64,7434>>,<<40,67,64,64,7451>>,<<40,73,68,64,7451>>,
  <<40,67,64,64,7468>>,<<40,73,68,64,7468>>,<<40,67,64,64,7487>>,<<40,73,68,64,7487>>,
  <<40,67,64,64,7504>>,<<40,73,68,64,7504>>,<<40,67,64,64,7521>>,<<40,73,68,64,7521>>,
  <<40,67,64,64,7538>>,<<40,73,68,64,7538>>,<<40,73,68,80,7629>>,<<40,67,64,64,7688>>,
  <<40,73,68,64,7688>>,<<40,67,64,64,7703>>,<<40,73,68,64,7703>>,<<40,67,64,64,7718>>,
  <<40,73,68,64,7718>>,<<40,72,68,72,7733>>,<<40,71,68,72,7754>>,<<40,70,68,72,7775>>,
  <<40,72,68,72,7796>>,<<40,71,68,72,7817>>,<<40,72,68,72,7838>>,<<40,73,68,72,7859>>,
  <<40,73,68,72,7876>>,<<41,47,68,72,7895>>,<<40,73,68,72,7916>>,<<40,72,68,72,7961>>,
  <<40,71,68,72,7982>>,<<40,70,68,72,8003>>,<<40,72,68,72,8024>>,<<40,71,68,72,8045>>,
  <<40,72,68,72,8066>>,<<40,73,68,80,8087>>,<<40,73,68,72,8106>>,<<40,73,68,72,8123>>,
  <<40,73,68,72,8140>>,<<40,73,68,72,8157>>,<<40,73,68,72,8174>>,<<40,73,68,72,8191>>,
  <<40,73,68,72,8208>>,<<40,73,68,72,8225>>,<<40,73,68,72,8242>>,<<40,73,68,72,8259>>,
  <<78,47,13,112,8284>>,<<78,47,13,112,8292>>,<<78,47,13,112,8301>>,<<40,73,68,152,9150>>,
  <<40,73,68,152,9167>>,<<40,73,68,152,9184>>,<<40,73,68,152,9209>>,<<40,73,68,152,9226>>,
  <<41,17,11,8,9251>>,<<41,15,13,80,9258>>,<<41,11,17,8,9251>>,<<41,17,13,80,9258>>,
  <<99,1,65,32,6436>>,<<60,1,69,48,6436>>,<<99,1,65,32,6695>>,<<60,1,69,48,6695>>,
  <<99,1,65,32,7009>>,<<60,1,69,48,7009>>,<<99,1,65,32,6451>>,<<60,1,69,48,6451>>,
  <<99,1,65,32,6710>>,<<60,1,69,48,6710>>,<<99,1,65,32,7024>>,<<60,1,69,48,7024>>,
  <<99,1,65,32,6466>>,<<60,1,69,48,6466>>,<<60,1,69,48,9830>>,<<99,1,65,32,7039>>,
  <<60,1,69,48,7039>>,<<60,1,69,48,9847>>,<<101,0,13,112,9882>>,<<101,0,13,112,9912>>,
  <<60,0,42,8,9922>>,<<101,0,13,112,9931>>,<<60,0,42,8,9951>>,<<101,0,13,112,9960>> >>

InstInfos_10 == <<
  <<60,0,46,112,9997>>,<<60,0,46,112,10006>> >>

InstInfos ==
  InstInfos_00 \o InstInfos_01 \o InstInfos_02 \o InstInfos_03 \o InstInfos_04 \o InstInfos_05 \o
  InstInfos_06 \o InstInfos_07 \o InstInfos_08 \o InstInfos_09 \o InstInfos_10

InstInfosEx_00 == <<
  <<23,17,11,8,117,0,3,0,0,0>>,<<23,17,11,8,117,0,5,0,0,0>>,<<28,0,0,8,228,0,0,0,233,239>>,
  <<28,0,0,8,245,0,0,0,250,255>>,<<37,0,40,13,427,0,0,0,433,440>>,<<44,11,17,8,876,0,1,0,0,0>>,
  <<44,11,17,8,876,0,52,0,0,0>>,<<44,11,17,8,892,0,1,0,0,0>>,<<44,11,17,8,892,0,52,0,0,0>>,
  <<67,90,83,128,2117,65,0,0,0,0>>,<<67,90,83,128,2126,65,0,0,0,0>>,
  <<68,81,68,128,2135,32,69,0,0,0>>,<<68,81,68,128,2143,32,69,0,0,0>>,
  <<69,44,68,128,2135,96,0,0,0,0>>,<<69,46,68,128,2143,96,0,0,0,0>>,
  <<67,83,90,128,2117,65,0,0,0,0>>,<<67,83,90,128,2126,65,0,0,0,0>>,
  <<68,81,68,128,2135,32,69,0,0,0>>,<<68,81,68,128,2143,32,69,0,0,0>>,
  <<69,68,44,128,2135,96,0,0,0,0>>,<<69,68,46,128,2143,96,0,0,0,0>>,
  <<70,72,68,40,2151,0,0,0,2160,0>>,<<71,81,68,128,2195,0,72,0,2205,0>>,
  <<72,81,68,128,2214,0,46,0,0,0>>,<<67,90,83,128,2223,65,0,0,0,0>>,
  <<67,89,83,128,2234,65,0,0,0,0>>,<<67,68,46,128,2205,64,0,0,0,0>>,
  <<67,68,46,128,2214,64,0,0,0,0>>,<<72,88,83,128,2264,1,90,0,0,0>>,
  <<72,88,83,128,2275,1,90,0,0,0>>,<<72,88,83,128,2306,1,90,0,0,0>>,
  <<72,88,83,128,2317,1,90,0,0,0>>,<<70,72,68,40,2328,0,0,0,2337,0>>,
  <<71,81,68,128,2363,0,72,0,2373,0>>,<<72,81,68,128,2382,0,46,0,0,0>>,
  <<67,90,83,128,2391,65,0,0,0,0>>,<<67,68,46,128,2373,64,0,0,0,0>>,
  <<67,68,46,128,2382,64,0,0,0,0>>,<<67,90,83,128,2467,65,0,0,0,0>>,
  <<67,90,83,128,2476,65,0,0,0,0>>,<<67,83,90,128,2467,65,0,0,0,0>>,
  <<67,83,90,128,2476,65,0,0,0,0>>,<<72,81,68,128,2525,2,79,0,0,0>>,
  <<72,81,68,128,2536,2,79,0,0,0>>,<<67,83,92,128,2583,65,0,0,0,0>>,
  <<67,83,92,128,2593,65,0,0,0,0>>,<<67,80,78,128,2647,66,0,0,0,0>>,
  <<67,80,78,128,2659,66,0,0,0,0>>,<<67,80,78,128,2711,66,0,0,0,0>>,
  <<67,80,78,128,2722,66,0,0,0,0>>,<<67,71,68,128,2751,64,0,0,0,0>>,
  <<67,72,68,128,2761,64,0,0,0,0>>,<<67,71,68,128,2787,64,0,0,0,0>>,
  <<67,72,68,128,2796,64,0,0,0,0>>,<<74,83,13,128,2825,65,0,0,0,0>>,
  <<74,83,13,128,2836,65,0,0,0,0>>,<<67,90,83,128,2879,65,0,0,0,0>>,
  <<67,90,83,128,2888,65,0,0,0,0>>,<<72,81,68,128,2897,0,71,0,0,0>>,
  <<72,81,68,128,2906,0,72,0,0,0>>,<<67,90,83,128,2933,65,0,0,0,0>>,
  <<72,81,68,128,2943,0,71,0,0,0>>,<<67,90,83,128,2967,65,0,0,0,0>>,
  <<72,81,68,128,2975,0,71,0,0,0>>,<<72,88,83,128,2997,1,90,0,0,0>>,
  <<72,88,83,128,3005,1,90,0,0,0>>,<<72,88,83,128,3029,1,90,0,0,0>>,
  <<72,88,83,128,3038,1,90,0,0,0>>,<<72,88,83,128,3059,1,90,0,0,0>>,
  <<72,88,83,128,3066,1,90,0,0,0>>,<<72,88,83,128,3087,1,90,0,0,0>>,
  <<72,88,83,128,3095,1,90,0,0,0>>,<<72,88,83,128,3131,1,90,0,0,0>>,
  <<72,88,83,128,3139,1,90,0,0,0>>,<<72,81,68,128,3147,0,71,0,0,0>>,
  <<72,81,68,128,3155,0,72,0,0,0>>,<<72,88,83,128,3191,1,90,0,0,0>>,
  <<72,88,83,128,3199,1,90,0,0,0>>,<<72,81,68,128,3207,0,71,0,0,0>>,
  <<72,81,68,128,3215,0,72,0,0,0>>,<<67,91,83,128,3263,65,0,0,0,0>>,
  <<67,90,68,128,3274,65,0,0,0,0>>,<<72,81,68,128,3285,0,71,0,0,0>>,
  <<72,81,68,128,3296,0,72,0,0,0>>,<<67,90,83,128,3338,65,0,0,0,0>>,
  <<67,90,83,128,3349,65,0,0,0,0>>,<<67,90,83,128,3360,65,0,0,0,0>>,
  <<72,88,83,128,3400,1,90,0,0,0>>,<<72,88,83,128,3408,1,90,0,0,0>>,
  <<72,81,68,128,3416,0,71,0,0,0>>,<<72,81,68,128,3424,0,72,0,0,0>>,
  <<72,88,83,128,3460,1,90,0,0,0>>,<<72,88,83,128,3468,1,90,0,0,0>>,
  <<72,81,68,128,3476,0,71,0,0,0>>,<<72,81,68,128,3484,0,72,0,0,0>>,
  <<72,88,83,128,3520,1,90,0,0,0>>,<<72,88,83,128,3528,1,90,0,0,0>>,
  <<72,81,68,128,3536,0,71,0,0,0>>,<<72,81,68,128,3544,0,72,0,0,0>>,
  <<72,88,83,128,3580,1,90,0,0,0>>,<<72,88,83,128,3588,1,90,0,0,0>>,
  <<72,81,68,128,3596,0,71,0,0,0>>,<<72,81,68,128,3604,0,72,0,0,0>>,
  <<72,81,68,128,3623,0,73,0,0,0>>,<<72,81,68,128,3646,0,73,0,0,0>>,
  <<72,81,68,128,3669,0,73,0,0,0>>,<<72,81,68,128,3691,0,73,0,0,0>>,
  <<72,81,68,128,3711,0,73,0,0,0>>,<<72,81,68,128,3730,0,73,0,0,0>>,
  <<72,81,68,128,3749,0,73,0,0,0>>,<<72,81,68,128,3769,0,73,0,0,0>>,
  <<72,81,68,128,3791,0,73,0,0,0>>,<<72,81,68,128,3814,0,73,0,0,0>>,
  <<72,81,68,128,3837,0,73,0,0,0>>,<<72,81,68,128,3859,0,73,0,0,0>>,
  <<72,81,68,128,3882,0,73,0,0,0>>,<<72,81,68,128,3907,0,73,0,0,0>>,
  <<75,18,64,32,3920,0,0,0,0,3926>>,<<75,18,68,48,3920,0,0,0,0,3926>>,
  <<67,79,68,128,3932,70,0,0,3939,0>>,<<67,90,83,128,3962,65,0,0,0,0>>,
  <<67,90,83,128,3971,65,0,0,0,0>>,<<76,67,64,40,3980,0,1,0,0,0>>,
  <<76,73,68,48,3988,0,1,0,0,0>>,<<76,73,68,48,3996,0,1,0,0,0>>,<<76,73,68,48,4005,0,1,0,0,0>>,
  <<72,73,68,128,4014,64,1,0,0,0>>,<<72,73,68,128,4023,64,1,0,0,0>> >>

InstInfosEx_01 == <<
  <<72,73,68,128,4033,64,1,0,0,0>>,<<72,81,68,128,4052,0,73,0,0,0>>,
  <<72,81,68,128,4071,0,73,0,0,0>>,<<72,81,68,128,4090,0,73,0,0,0>>,
  <<77,0,0,128,4106,73,0,0,4118,0>>,<<79,7,69,88,4136,0,8,0,0,0>>,
  <<80,69,68,88,4143,0,7,8,0,0>>,<<72,88,83,128,4197,1,90,0,0,0>>,
  <<72,88,83,128,4206,1,90,0,0,0>>,<<72,88,83,128,4231,1,90,0,0,0>>,
  <<72,88,83,128,4240,1,90,0,0,0>>,<<75,64,18,32,3920,0,0,0,0,3926>>,
  <<75,68,18,48,3920,0,0,0,0,3926>>,<<67,68,79,128,3932,70,0,0,3939,0>>,
  <<67,72,68,128,3939,64,0,0,0,0>>,<<67,83,90,128,3962,65,0,0,0,0>>,
  <<67,83,90,128,3971,65,0,0,0,0>>,<<82,0,42,8,4249,0,0,0,0,4256>>,
  <<83,0,43,8,4265,0,0,0,4273,4281>>,<<83,0,43,8,4291,0,0,0,4299,4309>>,
  <<84,0,43,8,4321,0,0,0,4329,0>>,<<89,73,68,40,4370,0,0,0,4379,4388>>,
  <<89,73,68,48,4449,0,0,0,4458,4467>>,<<89,71,68,40,4528,0,0,0,4537,4546>>,
  <<89,72,68,48,4607,0,0,0,4616,4625>>,<<90,88,83,128,4686,1,90,0,4696,4706>>,
  <<90,88,83,128,5088,1,90,0,5098,5108>>,<<90,81,68,128,5490,0,71,0,5500,5510>>,
  <<90,81,68,128,5892,0,72,0,5902,5912>>,<<76,25,64,40,6294,0,1,0,0,0>>,
  <<76,25,68,48,6294,0,1,0,0,0>>,<<91,81,68,128,6302,0,25,1,0,0>>,
  <<92,65,12,40,6311,0,1,0,0,0>>,<<76,69,12,48,6311,0,1,0,0,0>>,
  <<93,68,13,128,6319,64,1,0,0,0>>,<<76,73,68,40,6328,0,1,0,0,0>>,
  <<76,73,68,48,6336,0,1,0,0,0>>,<<91,88,83,128,6344,1,90,1,0,0>>,
  <<91,88,83,128,6353,1,90,1,0,0>>,<<94,0,48,8,6362,0,0,0,0,6373>>,
  <<72,88,83,128,6414,1,90,0,0,0>>,<<72,88,83,128,6425,1,90,0,0,0>>,
  <<72,81,68,128,6443,0,73,0,0,0>>,<<72,81,68,128,6458,0,73,0,0,0>>,
  <<72,81,68,128,6473,0,73,0,0,0>>,<<72,81,68,128,6488,0,73,0,0,0>>,
  <<72,81,68,128,6504,0,73,0,0,0>>,<<67,68,72,128,3939,64,0,0,0,0>>,
  <<74,68,13,128,6541,64,0,0,0,0>>,<<72,81,68,128,6561,0,73,0,0,0>>,
  <<72,81,68,128,6580,0,73,0,0,0>>,<<72,81,68,128,6598,0,73,0,0,0>>,
  <<72,81,68,128,6613,0,73,0,0,0>>,<<72,81,68,128,6629,0,73,0,0,0>>,
  <<72,81,68,128,6629,0,73,0,0,0>>,<<72,81,68,128,6656,0,73,0,0,0>>,
  <<72,81,68,128,6672,0,73,0,0,0>>,<<72,81,68,128,6687,0,73,0,0,0>>,
  <<72,81,68,128,6702,0,73,0,0,0>>,<<72,81,68,128,6717,0,73,0,0,0>>,
  <<72,81,68,128,6732,0,73,0,0,0>>,<<72,81,68,128,6749,0,73,0,0,0>>,
  <<72,81,68,128,6767,0,73,0,0,0>>,<<67,90,68,128,6807,65,0,0,0,0>>,
  <<67,91,83,128,6819,65,0,0,0,0>>,<<67,90,68,128,6830,65,0,0,0,0>>,
  <<67,83,92,128,6858,65,0,0,0,0>>,<<72,81,68,128,6876,0,73,0,0,0>>,
  <<72,81,68,128,6893,0,73,0,0,0>>,<<72,81,68,128,6910,0,73,0,0,0>>,
  <<72,81,68,128,6924,0,73,0,0,0>>,<<72,81,68,128,6938,0,73,0,0,0>>,
  <<72,81,68,128,6955,0,73,0,0,0>>,<<72,81,68,128,6972,0,73,0,0,0>>,
  <<72,81,68,128,6987,0,73,0,0,0>>,<<67,92,83,128,7001,65,0,0,0,0>>,
  <<72,81,68,128,7016,0,73,0,0,0>>,<<72,81,68,128,7031,0,73,0,0,0>>,
  <<72,81,68,128,7046,0,73,0,0,0>>,<<72,81,68,128,7063,0,73,0,0,0>>,
  <<72,81,68,128,7082,0,73,0,0,0>>,<<72,81,68,128,7100,0,73,0,0,0>>,
  <<95,69,68,128,7131,64,0,0,0,0>>,<<72,81,68,128,7151,0,73,0,0,0>>,
  <<72,81,68,128,7166,0,73,0,0,0>>,<<72,81,68,128,7181,0,73,0,0,0>>,
  <<72,81,68,128,7196,0,73,0,0,0>>,<<72,81,68,128,7211,0,73,0,0,0>>,
  <<72,81,68,128,7226,0,73,0,0,0>>,<<72,81,68,128,7241,0,73,0,0,0>>,
  <<72,81,68,128,7349,0,73,0,0,0>>,<<72,81,68,128,7366,0,73,0,0,0>>,
  <<72,81,68,128,7383,0,73,0,0,0>>,<<72,81,68,128,7401,0,73,0,0,0>>,
  <<72,81,68,128,7422,0,73,0,0,0>>,<<72,81,68,128,7442,0,73,0,0,0>>,
  <<72,81,68,128,7459,0,73,0,0,0>>,<<72,81,68,128,7477,0,73,0,0,0>>,
  <<72,81,68,128,7495,0,73,0,0,0>>,<<72,81,68,128,7512,0,73,0,0,0>>,
  <<72,81,68,128,7529,0,73,0,0,0>>,<<72,81,68,128,7548,0,73,0,0,0>>,
  <<72,88,83,128,7559,1,90,0,0,0>>,<<72,88,83,128,7570,1,90,0,0,0>>,
  <<67,90,83,128,7581,65,0,0,0,0>>,<<67,90,83,128,7590,65,0,0,0,0>>,
  <<76,73,68,72,7599,0,74,0,0,0>>,<<76,73,68,72,7609,0,74,0,0,0>>,
  <<76,73,68,72,7619,0,74,0,0,0>>,<<67,90,83,128,7636,65,0,0,0,0>>,
  <<67,44,83,128,7644,65,0,0,0,0>>,<<67,46,85,128,7658,80,0,0,0,0>>,
  <<67,47,85,128,7672,80,0,0,0,0>>,<<67,73,68,128,7695,64,0,0,0,0>>,
  <<67,73,68,128,7710,64,0,0,0,0>>,<<67,73,68,128,7725,64,0,0,0,0>>,
  <<67,72,68,128,7743,64,0,0,0,0>>,<<67,71,68,128,7764,64,0,0,0,0>>,
  <<67,70,68,128,7785,64,0,0,0,0>>,<<67,72,68,128,7806,64,0,0,0,0>>,
  <<67,71,68,128,7827,64,0,0,0,0>>,<<67,72,68,128,7848,64,0,0,0,0>>,
  <<72,81,68,128,7867,0,73,0,0,0>>,<<72,81,68,128,7885,0,73,0,0,0>>,
  <<67,47,68,128,7905,64,0,0,0,0>>,<<72,81,68,128,7926,0,73,0,0,0>>,
  <<72,88,83,128,7937,1,92,0,0,0>>,<<72,88,83,128,7949,1,92,0,0,0>> >>

InstInfosEx_02 == <<
  <<72,88,92,128,7937,1,83,0,0,0>>,<<72,88,92,128,7949,1,83,0,0,0>>,
  <<67,72,68,128,7971,64,0,0,0,0>>,<<67,71,68,128,7992,64,0,0,0,0>>,
  <<67,70,68,128,8013,64,0,0,0,0>>,<<67,72,68,128,8034,64,0,0,0,0>>,
  <<67,71,68,128,8055,64,0,0,0,0>>,<<67,72,68,128,8076,64,0,0,0,0>>,
  <<72,81,68,128,8096,0,73,0,0,0>>,<<72,81,68,128,8114,0,73,0,0,0>>,
  <<72,81,68,128,8131,0,73,0,0,0>>,<<72,81,68,128,8148,0,73,0,0,0>>,
  <<72,81,68,128,8165,0,73,0,0,0>>,<<72,81,68,128,8182,0,73,0,0,0>>,
  <<72,81,68,128,8199,0,73,0,0,0>>,<<72,81,68,128,8216,0,73,0,0,0>>,
  <<72,81,68,128,8233,0,73,0,0,0>>,<<72,81,68,128,8250,0,73,0,0,0>>,
  <<67,73,68,128,8271,64,0,0,0,0>>,<<72,88,83,136,8310,7,90,0,8326,0>>,
  <<72,88,83,136,8342,7,90,0,8358,0>>,<<72,88,83,136,8374,7,90,0,8387,0>>,
  <<72,81,68,136,8400,6,80,0,8413,0>>,<<72,88,83,136,8426,7,90,0,8439,0>>,
  <<72,81,68,136,8452,6,80,0,8465,0>>,<<72,88,83,136,8478,7,90,0,8492,0>>,
  <<72,81,68,136,8506,6,80,0,8520,0>>,<<72,88,83,136,8534,7,90,0,8548,0>>,
  <<72,81,68,136,8562,6,80,0,8576,0>>,<<72,88,83,136,8590,7,90,0,8606,0>>,
  <<72,88,83,136,8622,7,90,0,8638,0>>,<<72,88,83,136,8654,7,90,0,8667,0>>,
  <<72,81,68,136,8680,6,80,0,8693,0>>,<<72,88,83,136,8706,7,90,0,8719,0>>,
  <<72,81,68,136,8732,6,80,0,8745,0>>,<<72,88,83,136,8758,7,90,0,8772,0>>,
  <<72,81,68,136,8786,6,80,0,8800,0>>,<<72,88,83,136,8814,7,90,0,8828,0>>,
  <<72,81,68,136,8842,6,80,0,8856,0>>,<<72,88,83,136,8870,7,90,0,8886,0>>,
  <<72,88,83,136,8902,7,90,0,8918,0>>,<<72,88,83,136,8934,7,90,0,8947,0>>,
  <<72,81,68,136,8960,6,80,0,8973,0>>,<<72,88,83,136,8986,7,90,0,8999,0>>,
  <<72,81,68,136,9012,6,80,0,9025,0>>,<<72,88,83,136,9038,7,90,0,9052,0>>,
  <<72,81,68,136,9066,6,80,0,9080,0>>,<<72,88,83,136,9094,7,90,0,9108,0>>,
  <<72,81,68,136,9122,6,80,0,9136,0>>,<<67,73,68,152,9158,64,0,0,0,0>>,
  <<72,81,68,152,9175,0,73,0,0,0>>,<<72,81,68,152,9196,0,73,0,0,0>>,
  <<72,81,68,152,9217,0,73,0,0,0>>,<<72,81,68,152,9238,0,73,0,0,0>>,
  <<72,90,83,128,7559,65,1,0,0,0>>,<<72,90,83,128,7570,65,1,0,0,0>>,
  <<91,87,85,128,9265,16,86,1,0,0>>,<<76,73,68,72,9277,0,1,0,0,0>>,
  <<72,90,83,128,9286,65,1,0,0,0>>,<<76,73,68,72,9296,0,1,0,0,0>>,
  <<72,90,83,128,9305,65,1,0,0,0>>,<<76,71,68,72,9315,0,1,0,0,0>>,
  <<91,81,68,128,9324,0,71,1,0,0>>,<<76,72,68,72,9334,0,1,0,0,0>>,
  <<91,81,68,128,9343,0,72,1,0,0>>,<<76,73,68,72,9353,0,1,0,0,0>>,
  <<91,88,83,128,9362,1,90,1,0,0>>,<<76,73,68,72,9372,0,1,0,0,0>>,
  <<91,88,83,128,9381,1,90,1,0,0>>,<<76,73,68,72,9391,0,1,0,0,0>>,
  <<91,81,68,128,9400,0,73,1,0,0>>,<<76,67,64,64,9410,0,1,0,0,0>>,
  <<76,73,68,64,9410,0,1,0,0,0>>,<<91,81,68,128,9419,0,73,1,0,0>>,
  <<76,68,26,72,9429,0,1,0,0,0>>,<<93,68,76,128,9437,64,1,0,0,0>>,
  <<76,68,27,72,6311,0,1,0,0,0>>,<<93,68,77,128,6319,64,1,0,0,0>>,
  <<98,68,18,72,9446,0,1,0,0,9454>>,<<72,68,79,128,9462,70,1,0,9471,0>>,
  <<76,68,18,72,9480,0,1,0,0,0>>,<<72,68,75,128,9491,64,1,0,0,0>>,
  <<91,87,85,128,9503,16,73,1,0,0>>,<<72,85,73,128,9516,80,1,0,0,0>>,
  <<76,24,68,72,9530,0,1,0,0,0>>,<<91,81,68,128,9538,0,76,1,0,0>>,
  <<76,71,68,72,9547,0,1,0,0,0>>,<<91,81,68,128,9557,0,71,1,0,0>>,
  <<98,18,68,72,9568,0,1,0,0,9576>>,<<91,81,68,128,9584,6,79,1,9593,0>>,
  <<76,73,68,72,9602,0,1,0,0,0>>,<<91,88,83,128,9608,1,90,1,0,0>>,
  <<76,73,68,72,9615,0,1,0,0,0>>,<<91,81,68,128,9621,0,73,1,0,0>>,
  <<76,73,68,72,9628,0,1,0,0,0>>,<<91,81,68,128,9637,0,73,1,0,0>>,
  <<76,73,68,144,9647,0,1,0,0,0>>,<<91,81,68,144,9658,0,73,1,0,0>>,
  <<91,88,83,128,9670,1,90,84,0,0>>,<<91,88,83,128,9681,1,90,84,0,0>>,
  <<91,81,68,128,9692,0,73,82,0,0>>,<<76,73,68,80,9703,0,1,0,0,0>>,
  <<72,73,68,128,9714,64,1,0,0,0>>,<<76,73,68,80,9726,0,1,0,0,0>>,
  <<72,73,68,128,9737,64,1,0,0,0>>,<<76,73,68,80,9749,0,1,0,0,0>>,
  <<72,73,68,128,9760,64,1,0,0,0>>,<<76,73,68,80,9772,0,1,0,0,0>>,
  <<72,73,68,128,9783,64,1,0,0,0>>,<<76,73,68,152,9795,0,1,0,0,0>>,
  <<72,73,68,152,9812,64,1,0,0,0>>,<<100,69,81,128,6443,0,1,0,0,0>>,
  <<100,69,81,128,6702,0,1,0,0,0>>,<<100,69,81,128,7016,0,1,0,0,0>>,
  <<100,69,81,128,6458,0,1,0,0,0>>,<<100,69,81,128,6717,0,1,0,0,0>>,
  <<100,69,81,128,7031,0,1,0,0,0>>,<<100,69,81,128,6473,0,1,0,0,0>>,
  <<100,69,81,128,9838,0,1,0,0,0>>,<<100,69,81,128,7046,0,1,0,0,0>>,
  <<100,69,81,128,9855,0,1,0,0,0>>,<<82,0,42,8,9864,0,0,0,0,9872>>,
  <<82,0,42,8,9892,0,0,0,0,9901>>,<<69,0,44,128,9941,64,0,0,0,0>>,
  <<69,0,44,128,9970,64,0,0,0,0>>,<<84,0,43,112,9980,0,0,0,9988,0>> >>

InstInfosEx ==
  InstInfosEx_00 \o InstInfosEx_01 \o InstInfosEx_02

InstructionsTree_00 == <<
  8192,8193,8194,8195,8196,8197,8198,8199,8200,8201,8202,8203,8204,8205,8206,33024,8207,8208,
  8209,8210,8211,8212,8213,8214,8215,8216,8217,8218,8219,8220,8221,8222,8223,8224,8225,8226,
  8227,8228,0,8229,8230,8231,8232,8233,8234,8235,0,8236,8237,8238,8239,8240,8241,8242,0,8243,
  8244,8245,8246,8247,8248,8249,0,8250,8251,8252,8253,8254,8255,8256,8257,8258,8259,8260,8261,
  8262,8263,8264,8265,8266,8267,8268,8269,8270,8271,8272,8273,8274,8275,8276,8277,8278,8279,
  8280,8281,8282,8283,8284,8285,8286,0,0,0,0,8287,16384,8288,16385,8289,8290,8291,8292,8293,
  8294,8295,8296,8297,8298,8299,8300,8301,8302,8303,8304,8305,8306,8307,8308,25088,25096,25104,
  25112,8309,8310,8311,8312,8313,8314,8315,8316,8317,8318,8319,25120 >>

InstructionsTree_01 == <<
  8320,8321,8322,8323,8324,8325,8326,8327,16386,16387,8328,0,8329,8330,8331,8332,8333,8334,8335,
  8336,8337,8338,8339,8340,8341,8342,8343,8344,8345,8346,8347,8348,8349,8350,8351,8352,8353,
  8354,8355,8356,8357,8358,8359,8360,8361,8362,8363,8364,25128,25136,8365,8366,8367,8368,25144,
  25152,8369,8370,8371,8372,8373,8374,8375,8376,25160,25168,25176,25184,8377,8378,8379,8380,
  41576,41648,41720,41792,41864,41936,42008,42080,8381,8382,8383,16388,8384,8385,8386,8387,8388,
  8389,8390,8391,8392,8393,8394,8395,0,8396,0,0,8397,8398,25768,25776,8399,8400,8401,8402,8403,
  8404,25784,25792,25800,42192,8405,8406,0,8407,8408,8409,8410,8411,0,8412,0,25880,8413,34080,
  50720,50732,50744,50756,50768,50780,50792,50804,26240,0,0,0,0,0,0,8414 >>

InstructionsTree_02 == <<
  8415,8416,8417,8418,0,0,0,0,50824,50836,50848,50860,50872,50884,50896,50908,8419,8420,8421,
  8422,8423,8424,0,8425,34536,0,34792,0,0,0,0,0,8426,8427,8428,8429,8430,8431,8432,8433,8434,
  8435,8436,8437,8438,8439,8440,8441,51432,51444,51456,51468,51480,51492,51504,51516,51528,
  51540,51552,51564,51576,51588,51600,51612,51624,51636,51648,51660,51672,51684,51696,51708,
  51720,51732,51744,51756,51768,51780,51792,51804,51816,27252,27260,27268,51852,51864,51876,
  51888,51900,51912,35540,0,52180,52192,52204,52216,8442,8443,8444,8445,8446,8447,8448,8449,
  8450,8451,8452,8453,8454,8455,8456,8457,8458,8459,8460,8461,8462,8463,8464,8465,8466,8467,
  8468,8469,8470,8471,8472,8473,8474,8475,8476,8477,16389,16390,0,0,8478,8479,8480,8481,16391,
  16392,27652,8482 >>

InstructionsTree_03 == <<
  8483,8484,8485,8486,8487,8488,8489,8490,52236,8491,27672,8492,52256,52268,8493,8494,8495,8496,
  52280,8497,52292,52304,52316,27752,8498,8499,8500,8501,8502,8503,8504,8505,52336,52348,52360,
  52372,52384,52396,52408,52420,52432,52444,52456,52468,52480,52492,52504,52516,52528,52540,
  52552,52564,52576,52588,52600,52612,52624,52636,52648,52660,52672,52684,52696,52708,52720,
  52732,52744,52756,52768,52780,52792,52804,52816,52828,52840,52852,52864,52876,52888,0,8506,
  8507,8508,8509,8510,8511,8512,8513,8514,8515,8516,8517,8518,8519,8520,8521,8522,8523,8524,
  8525,8526,8527,8528,8529,8530,8531,8532,8533,8534,8535,8536,8537,8538,0,0,0,0,0,0,0,8539,8540,
  8541,8542,8543,8544,8545,8546,8547,8548,8549,8550,8551,8552,8553,8554,8555,0,0,0,0,0,0,0 >>

InstructionsTree_04 == <<
  8556,0,0,0,0,0,0,0,8557,8558,8559,8560,8561,8562,8563,8564,8565,8566,8567,8568,8569,8570,8571,
  8572,8573,8574,8575,8576,8577,8578,8579,8580,8581,8582,8583,8584,8585,8586,8587,8588,8589,
  8590,8591,8592,8593,8594,8595,8596,8597,8598,8599,8600,8601,8602,8603,8604,8605,8606,8607,
  8608,8609,8610,8611,8612,8613,8614,8615,8616,8617,8618,8619,8620,8621,8622,8623,8624,8625,
  8626,8627,8628,8629,8630,8631,8632,8633,8634,8635,8636,8637,8638,8639,8640,8641,8642,8643,
  8644,8645,8646,8647,8648,8649,8650,8651,8652,8653,8654,8655,8656,8657,8658,8659,8660,8661,0,
  8662,8663,8664,8665,52900,52912,8666,8667,8668,8669,8670,8671,8672,8673,8674,8675,8676,8677,
  8678,8679,8680,8681,8682,0,0,0,0,0,0,0 >>

InstructionsTree_05 == <<
  0,0,0,0,0,0,0,0,8683,8684,0,0,8685,8686,0,0,8687,8688,8689,8690,8691,8692,8693,0,8694,8695,
  8696,8697,8698,8699,8700,8701,8702,8703,8704,8705,8706,8707,8708,8709,8710,8711,8712,8713,
  8714,8715,8716,8717,8718,8719,8720,8721,8722,8723,8724,8725,8726,8727,8728,8729,8730,8731,
  8732,8733,8734,8735,8736,8737,8738,8739,8740,8741,8742,8743,8744,8745,8746,8747,8748,8749,0,0,
  0,0,0,0,0,0,0,8750,0,0,0,0,0,0,0,0,0,0,0,0,0,0,0,0,0,0,0,0,0,0,8751,8752,8753,8754,0,8755,0,
  8756,8757,8758,8759,8760,8761,8762,8763,8764,8765,8766,8767,8768,8769,8770,8771,8772,8773,
  8774,8775,8776,8777,8778,8779,8780 >>

InstructionsTree_06 == <<
  8781,8782,8783,8784,8785,8786,8787,8788,8789,8790,52924,52936,8791,0,0,0,8792,8793,8794,8795,
  8796,8797,8798,8799,8800,8801,8802,8803,8804,8805,8806,8807,0,0,0,0,0,0,0,0,8808,8809,8810,
  8811,8812,8813,8814,8815,8816,8817,8818,8819,8820,8821,8822,8823,8824,8825,8826,8827,8828,
  8829,8830,8831,0,0,0,0,0,0,0,0,0,0,0,0,0,0,0,0,8832,8833,8834,8835,8836,8837,8838,8839,8840,
  8841,8842,8843,8844,8845,8846,8847,8848,8849,8850,8851,8852,8853,8854,8855,8856,8857,8858,
  8859,8860,8861,8862,8863,8864,8865,8866,8867,8868,0,52948,52960,8869,8870,8871,8872,8873,8874,
  8875,8876,0,0,0,0,0,0,0,0,8877,8878,8879,8880,8881,8882,8883,8884 >>

InstructionsTree_07 == <<
  8885,8886,8887,8888,8889,8890,8891,8892,8893,8894,8895,8896,8897,8898,8899,8900,8901,8902,
  8903,8904,8905,8906,8907,8908,0,0,0,0,0,0,0,0,0,0,0,0,0,0,0,0,8909,8910,8911,8912,8913,8914,
  8915,8916,8917,8918,8919,8920,8921,8922,8923,8924,8925,8926,8927,8928,8929,8930,8931,8932,0,0,
  0,0,0,0,0,0,0,8933,0,0,0,0,0,0,8934,8935,8936,8937,8938,8939,8940,8941,8942,8943,8944,8945,
  8946,8947,8948,8949,8950,8951,8952,8953,8954,8955,8956,8957,8958,8959,8960,8961,8962,8963,
  8964,8965,8966,8967,8968,8969,8970,8971,8972,8973,0,0,0,0,0,0,0,0,0,0,0,0,0,0,0,0,0,0,0,0,0,0,
  0,0 >>

InstructionsTree_08 == <<
  0,0,0,0,0,0,0,0,52972,0,0,0,0,0,0,0,8974,8975,8976,8977,8978,8979,8980,8981,8982,8983,8984,
  8985,8986,8987,8988,8989,0,0,0,0,0,0,0,0,8990,0,8991,8992,8993,8994,8995,8996,8997,0,8998,
  8999,9000,9001,9002,9003,9004,9005,0,0,0,0,0,0,9006,9007,9008,9009,9010,9011,9012,0,9013,9014,
  9015,9016,9017,9018,0,0,9019,9020,9021,9022,9023,0,9024,9025,0,9026,9027,9028,9029,0,0,0,9030,
  9031,0,0,0,0,0,0,9032,9033,0,0,9034,0,0,0,9035,9036,9037,9038,9039,9040,9041,9042,0,0,0,0,0,0,
  0,0,0,0,0,0,0,0,0,0,0,0,0,0,0,0,0,0 >>

InstructionsTree_09 == <<
  9043,9044,0,0,0,0,0,0,9045,9046,0,0,0,0,0,0,0,0,0,0,0,0,0,0,0,0,0,0,9047,9048,0,0,0,0,0,0,0,0,
  0,0,0,0,0,0,9049,9050,0,0,0,0,0,0,0,0,0,0,0,0,0,0,0,0,0,0,0,0,0,0,0,0,0,0,0,0,0,0,0,0,0,0,0,0,
  0,0,0,0,0,0,0,0,0,0,0,0,0,0,0,0,0,0,0,0,0,0,0,0,0,0,0,0,0,0,0,0,0,0,0,0,0,0,0,0,0,0,0,0,0,0,0,
  0,0,0,0,0,0,0,0,0,0,0,0,0,0,0 >>

InstructionsTree_10 == <<
  0,0,0,0,0,0,0,0,0,0,9051,0,0,0,9052,0,9053,0,0,0,9054,0,9055,9056,0,0,9057,0,0,0,9058,0,9059,
  0,0,0,9060,0,9061,9062,0,0,9063,0,0,0,9064,0,9065,0,0,0,9066,0,9067,9068,0,0,0,9069,0,0,0,
  9070,0,0,0,0,0,0,0,0,0,0,0,0,0,0,0,0,0,0,0,0,0,0,0,0,0,0,0,0,0,0,0,0,0,0,0,0,0,0,0,0,0,0,0,0,
  0,0,0,0,0,0,0,0,0,0,0,0,0,0,0,0,0,0,0,0,9071,9072,9073,9074,16393,16394,16395,16396,0,0,16397,
  16398,9075,9076,9077,9078 >>

InstructionsTree_11 == <<
  16399,16400,16401,16402,0,0,16403,16404,16405,9079,9080,9081,16406,16407,16408,16409,0,0,0,0,
  9082,9083,0,0,16410,16411,0,0,0,0,0,0,9084,9085,0,0,16412,16413,0,0,0,0,0,0,9086,9087,0,0,
  16414,16415,0,0,0,0,0,0,16416,9088,9089,0,16417,16418,16419,0,0,0,0,0,9090,9091,0,0,16420,
  16421,0,0,0,0,0,0,9092,9093,9094,9095,0,0,0,0,9096,9097,0,0,16422,16423,0,0,0,0,0,0,9098,9099,
  0,0,16424,16425,0,0,0,0,0,0,9100,9101,9102,9103,0,0,16426,16427,0,0,0,0,9104,9105,9106,9107,
  16428,16429,0,0,0,0,0,0,9108,9109,9110,9111,0,0,16430,16431 >>

InstructionsTree_12 == <<
  0,0,0,0,9112,9113,9114,9115,0,0,16432,16433,0,0,0,0,9116,9117,0,0,16434,16435,0,0,0,0,0,0,
  9118,9119,0,0,16436,16437,0,0,0,0,0,0,52984,52996,53008,53020,53032,53044,53056,53068,53080,
  53092,53104,53116,53128,53140,53152,53164,53176,0,0,0,53188,53200,0,53212,53224,53236,53248,0,
  53260,53272,53284,0,53296,53308,53320,53332,53344,53356,0,0,53368,53380,53392,53404,53416,
  53428,53440,53452,53464,53476,53488,53500,53512,53524,0,53536,53548,53560,53572,53584,53596,
  53608,53620,53632,53644,53656,0,0,0,0,0,0,0,0,0,0,0,0,0,0,0,0,0,0,0,0,0,0,0,0,0,0,0,0,0,0,0,0,
  0,0,0,0,0,0 >>

InstructionsTree_13 == <<
  0,0,0,0,0,0,0,0,0,0,0,0,0,0,0,0,0,0,0,0,0,0,0,0,53668,53680,53692,0,0,0,0,0,0,0,0,0,0,0,0,0,0,
  0,0,0,0,0,53704,53716,53728,53740,53752,53764,53776,53788,53800,53812,0,0,0,0,0,0,53824,53836,
  53848,53860,53872,53884,53896,53908,53920,53932,0,0,0,0,0,0,53944,53956,53968,53980,53992,
  54004,54016,54028,54040,54052,0,0,0,0,0,0,0,0,0,0,0,0,0,0,0,0,0,0,0,0,0,0,0,0,0,0,0,54064,
  54076,54088,54100,54112,0,0,0,0,0,0,0,0,0,0,0,0,0,0,0,0,54124,54136,0,0,0,0,0,0 >>

InstructionsTree_14 == <<
  0,0,0,0,0,0,0,0,0,0,0,0,54148,54160,54172,0,54184,54196,54208,54220,54232,54244,54256,54268,0,
  0,0,0,54280,54292,54304,54316,54328,54340,0,0,0,0,0,0,54352,54364,54376,0,0,0,0,0,0,0,0,0,0,0,
  0,0,0,0,0,0,0,0,0,0,0,0,0,0,0,0,0,0,54388,54400,54412,0,54424,0,0,0,0,0,54436,54448,54460,0,0,
  0,0,0,0,0,0,0,0,0,0,0,0,0,0,0,0,0,54472,54484,54496,54508,0,0,0,0,0,0,0,0,0,0,0,0,0,0,0,0,0,0,
  0,0,0,0,0,0,0,0,0,0,0,0,0,0,0,0,0,0 >>

InstructionsTree_15 == <<
  0,0,0,0,0,0,0,0,0,0,0,0,0,0,0,0,0,0,0,0,0,0,0,0,0,0,0,0,0,0,0,0,0,0,0,0,0,0,0,0,0,0,0,0,0,0,0,
  0,0,0,0,0,0,0,0,0,0,0,0,0,0,0,0,0,0,0,0,0,0,0,0,0,0,0,0,0,0,0,0,0,0,0,0,0,0,0,0,54520,0,0,0,0,
  0,0,0,0,0,0,0,0,0,0,0,0,0,0,0,0,0,0,0,0,0,0,0,0,0,0,0,0,9120,9121,0,0,16438,16439,0,0,0,0,0,0,
  9122,9123,9124,9125,16440,16441,16442,16443,0,0,0,0 >>

InstructionsTree_16 == <<
  9126,0,9127,0,16444,0,16445,0,0,0,0,0,9128,0,9129,0,16446,0,16447,0,0,0,0,0,9130,9131,0,0,
  16448,16449,0,0,0,0,0,0,9132,9133,0,0,16450,16451,0,0,0,0,0,0,9134,9135,0,0,16452,16453,0,0,0,
  0,0,0,9136,9137,0,0,16454,16455,0,0,0,0,0,0,9138,9139,9140,9141,16456,16457,16458,16459,0,0,0,
  0,9142,9143,9144,9145,16460,16461,16462,16463,0,0,0,0,9146,9147,9148,9149,16464,16465,16466,
  16467,0,0,0,0,9150,9151,9152,0,16468,16469,16470,0,0,0,0,0,9153,9154,9155,9156,16471,16472,
  16473,16474,0,0,0,0,9157,9158,9159,9160,16475,16476,16477,16478,0,0,0,0 >>

InstructionsTree_17 == <<
  9161,9162,9163,9164,16479,16480,16481,16482,0,0,0,0,9165,9166,9167,9168,16483,16484,16485,
  16486,0,0,0,0,9169,9170,0,0,0,16487,0,0,0,0,0,0,9171,9172,0,0,0,16488,0,0,0,0,0,0,9173,9174,0,
  0,0,16489,0,0,0,0,0,0,9175,9176,0,0,0,16490,0,0,0,0,0,0,9177,9178,0,0,0,16491,0,0,0,0,0,0,
  9179,9180,0,0,0,16492,0,0,0,0,0,0,9181,9182,0,0,0,16493,0,0,0,0,0,0,9183,9184,0,0,0,16494,0,0,
  0,0,0,0,9185,9186,0,0,0,16495,0,0,0,0,0,0,9187,9188,0,0,0,16496,0,0,0,0,0,0 >>

InstructionsTree_18 == <<
  9189,9190,0,0,0,16497,0,0,0,0,0,0,9191,9192,0,0,0,16498,0,0,0,0,0,0,0,9193,0,0,0,16499,0,0,0,
  0,0,0,0,9194,0,0,0,16500,0,0,0,0,0,0,16501,16502,0,0,0,16503,0,0,0,0,0,0,9195,9196,9197,0,0,
  16504,16505,0,0,0,0,0,16506,16507,16508,16509,0,16510,16511,16512,0,0,0,0,0,0,54532,0,54544,0,
  54556,0,0,0,54568,0,54580,0,54592,0,0,0,54604,54616,0,0,54628,54640,9198,9199,0,0,0,16513,0,0,
  0,0,0,0,9200,9201,0,0,0,16514,0,0,0,0,0,0,9202,9203,0,0,0,16515,0,0,0,0,0,0 >>

InstructionsTree_19 == <<
  9204,0,0,0,16516,0,0,0,0,0,0,0,9205,16517,0,16518,0,0,0,0,0,0,0,0,9206,9207,0,9208,0,0,0,0,0,
  0,0,0,0,0,0,0,0,0,0,0,0,0,0,0,0,0,0,0,0,0,0,0,0,0,0,0,0,0,0,0,0,0,0,0,0,0,0,0,0,0,0,0,0,0,0,0,
  0,0,0,0,9209,9210,0,0,0,0,0,0,0,0,0,0,0,0,0,0,0,0,0,0,0,0,0,0,0,0,0,0,0,0,0,0,0,0,0,0,0,0,0,0,
  0,0,0,0,0,0,0,0,0,0,0,0,0,0,0,0,0,0,0,0 >>

InstructionsTree_20 == <<
  0,0,0,0,0,0,0,0,0,0,0,0,0,0,0,0,0,0,0,0,0,0,0,0,0,0,0,0,0,0,0,0,0,0,0,0,0,0,0,0,0,0,0,0,0,0,0,
  0,0,0,0,0,0,0,0,0,0,0,0,0,0,0,0,0,0,0,0,0,0,0,0,0,0,0,0,0,0,0,0,0,0,0,0,0,0,0,0,0,0,0,0,0,0,0,
  0,0,0,0,0,0,0,0,0,0,0,0,0,0,0,0,0,0,0,0,0,0,0,0,0,0,0,0,0,0,0,0,0,0,0,0,0,0,0,0,0,0,0,0,0,0,0,
  0,0,0 >>

InstructionsTree_21 == <<
  0,0,0,0,0,9211,0,9212,0,16519,0,16520,0,0,0,0,0,9213,0,9214,0,16521,0,16522,0,0,0,0,16523,
  16524,9215,0,0,16525,16526,0,0,0,0,0,9216,9217,9218,0,0,16527,16528,0,0,0,0,0,54652,54664,
  54676,54688,16529,16530,16531,16532,0,0,9219,0,0,0,0,0,0,0,0,0,0,0,0,0,9220,9221,9222,9223,
  9224,0,9225,0,0,0,0,0,0,0,0,0,9226,0,9227,0,0,0,0,0,0,0,0,0,16533,16534,16535,16536,16537,
  16538,16539,16540,0,0,0,0,16541,16542,0,0,0,16543,0,0,0,0,0,0,16544,16545,0,0,0,16546,0,0,0,0,
  0,0,16547,16548,0,0 >>

InstructionsTree_22 == <<
  16549,16550,0,0,0,0,0,0,0,16551,0,0,0,0,54700,9228,0,9229,0,9230,0,16552,0,16553,0,0,0,0,9231,
  9232,0,0,0,16554,0,0,0,0,0,0,9233,9234,0,0,0,16555,0,0,0,0,0,0,9235,9236,0,0,0,16556,0,0,0,0,
  0,0,9237,9238,0,0,0,16557,0,0,0,0,0,0,9239,9240,0,0,0,16558,0,0,0,0,0,0,0,9241,9242,9243,0,
  16559,0,0,0,0,0,0,9244,9245,0,0,0,16560,0,0,0,0,0,0,9246,9247,0,0,0,16561,0,0,0,0,0,0,9248,
  9249,0,0,0,16562,0,0,0,0,0,0,9250,9251,0,0,0,16563,0,0 >>

InstructionsTree_23 == <<
  0,0,0,0,9252,9253,0,0,0,16564,0,0,0,0,0,0,9254,9255,0,0,0,16565,0,0,0,0,0,0,9256,9257,0,0,0,
  16566,0,0,0,0,0,0,9258,9259,0,0,0,16567,0,0,0,0,0,0,9260,9261,0,0,0,16568,0,0,0,0,0,0,9262,
  9263,0,0,0,16569,0,0,0,0,0,0,9264,9265,0,0,0,16570,0,0,0,0,0,0,9266,9267,0,0,0,16571,0,0,0,0,
  0,0,9268,9269,0,0,0,16572,0,0,0,0,0,0,9270,9271,0,0,0,16573,0,0,0,0,0,0,9272,9273,0,0,0,16574,
  0,0,0,0,0,0,0,9274,9275,9276,0,16575,16576,16577 >>

InstructionsTree_24 == <<
  0,0,0,0,9277,9278,0,0,0,16578,0,0,0,0,0,0,9279,9280,0,0,0,16579,0,0,0,0,0,0,9281,9282,0,0,0,
  16580,0,0,0,0,0,0,9283,9284,0,0,0,16581,0,0,0,0,0,0,9285,9286,0,0,0,16582,0,0,0,0,0,0,9287,
  9288,0,0,0,16583,0,0,0,0,0,0,9289,9290,0,0,0,16584,0,0,0,0,0,0,9291,9292,0,0,0,16585,0,0,0,0,
  0,0,9293,9294,0,0,0,16586,0,0,0,0,0,0,0,0,0,9295,0,0,0,16587,0,0,0,0,9296,9297,0,0,0,16588,0,
  0,0,0,0,0,9298,9299,0,0,0,16589,0,0 >>

InstructionsTree_25 == <<
  0,0,0,0,9300,9301,0,0,0,16590,0,0,0,0,0,0,9302,9303,0,0,0,16591,0,0,0,0,0,0,9304,9305,0,0,0,
  16592,0,0,0,0,0,0,9306,9307,0,0,0,16593,0,0,0,0,0,0,9308,9309,0,0,0,16594,0,0,0,0,0,0,9310,
  9311,0,0,0,16595,0,0,0,0,0,0,9312,9313,0,0,0,16596,0,0,0,0,0,0,9314,9315,0,0,0,16597,0,0,0,0,
  0,0,9316,9317,0,0,0,16598,0,0,0,0,0,0,9318,9319,0,0,0,16599,0,0,0,0,0,0,9320,9321,0,0,0,16600,
  0,0,0,0,0,0,9322,9323,0,0,0,16601,0,0 >>

InstructionsTree_26 == <<
  0,0,0,0,9324,9325,0,0,0,0,0,0,0,0,0,0,9326,9327,0,0,0,0,0,0,0,0,0,0,9328,9329,0,0,0,0,0,0,0,0,
  0,0,9330,9331,0,0,0,0,0,0,0,0,0,0,9332,9333,0,0,0,0,0,0,0,0,0,0,9334,9335,0,0,0,0,0,0,0,0,0,0,
  9336,9337,0,0,0,0,0,0,0,0,0,0,9338,9339,0,0,0,16602,0,0,0,0,0,0,9340,9341,0,0,0,16603,0,0,0,0,
  0,0,9342,9343,0,0,0,16604,0,0,0,0,0,0,9344,9345,0,0,0,16605,0,0,0,0,0,0,9346,9347,0,0,0,16606,
  0,0 >>

InstructionsTree_27 == <<
  0,0,0,0,9348,9349,0,0,0,16607,0,0,0,0,0,0,9350,9351,0,0,0,16608,0,0,0,0,0,0,9352,9353,0,0,0,
  16609,0,0,0,0,0,0,9354,9355,0,0,0,16610,0,0,0,0,0,0,9356,9357,0,0,0,16611,0,0,0,0,0,0,9358,
  9359,0,0,0,16612,0,0,0,0,0,0,9360,9361,0,0,0,16613,0,0,0,0,0,0,0,0,0,0,0,16614,0,0,0,0,0,0,0,
  0,0,0,0,16615,0,0,0,0,0,0,0,0,0,0,0,16616,0,0,0,0,0,0,0,0,0,0,0,16617,0,0,0,0,0,0,0,16618,0,0,
  0,0,0,0 >>

InstructionsTree_28 == <<
  0,0,0,0,0,16619,0,0,0,0,0,0,0,0,0,0,0,16620,0,0,0,0,0,0,0,0,0,0,0,9362,0,0,0,16621,0,0,0,0,0,
  0,0,0,0,0,0,16622,0,0,0,0,0,0,0,0,0,0,0,16623,0,0,0,0,0,0,0,0,0,0,0,16624,0,0,0,0,0,0,9363,
  9364,0,0,0,16625,0,0,0,0,0,0,9365,9366,0,0,0,16626,0,0,0,0,0,0,9367,9368,0,0,0,16627,0,0,0,0,
  0,0,0,9369,0,0,0,16628,0,0,0,0,0,0,0,9370,0,0,0,16629,0,0,0,0,0,0,0,9371,0,0,0,16630,0,0 >>

InstructionsTree_29 == <<
  0,0,0,0,0,9372,0,0,0,16631,0,0,0,0,0,0,0,9373,0,0,0,16632,0,0,0,0,0,0,0,9374,0,0,0,16633,0,0,
  0,0,0,0,0,9375,0,0,0,16634,0,0,0,0,0,0,0,9376,0,0,0,16635,0,0,0,0,0,0,0,9377,0,0,0,16636,0,0,
  0,0,0,0,0,9378,0,0,0,16637,0,0,0,0,0,0,0,0,0,0,0,16638,0,0,0,0,0,0,0,0,0,0,0,16639,0,0,0,0,0,
  0,0,0,0,0,0,16640,0,0,0,0,0,0,0,0,0,0,0,16641,0,0,0,0,0,0,0,9379,0,0,0,16642,0,0 >>

InstructionsTree_30 == <<
  0,0,0,0,0,9380,0,0,0,16643,0,0,0,0,0,0,0,9381,0,0,0,16644,0,0,0,0,0,0,0,9382,0,0,0,16645,0,0,
  0,0,0,0,0,9383,0,0,0,16646,0,0,0,0,0,0,0,9384,0,0,0,16647,0,0,0,0,0,0,0,9385,0,0,0,16648,0,0,
  0,0,0,0,0,9386,0,0,0,16649,0,0,0,0,0,0,0,9387,0,0,0,16650,0,0,0,0,0,0,0,9388,0,0,0,16651,0,0,
  0,0,0,0,0,9389,0,0,0,16652,0,0,0,0,0,0,0,9390,0,0,0,16653,0,0,0,0,0,0,0,9391,0,0,0,16654,0,0 >>

InstructionsTree_31 == <<
  0,0,0,0,0,9392,0,0,0,16655,0,0,0,0,0,0,0,9393,0,0,0,16656,0,0,0,0,0,0,0,9394,0,0,0,16657,0,0,
  0,0,0,0,0,9395,0,0,0,16658,0,0,0,0,0,0,0,9396,0,0,0,0,0,0,0,0,0,0,0,9397,0,0,0,0,0,0,0,0,0,0,
  0,9398,0,0,0,0,0,0,0,0,0,0,0,0,0,0,0,16659,0,0,0,0,0,0,0,0,0,0,0,16660,0,0,0,0,0,0,0,0,0,0,0,
  16661,0,0,0,0,0,0,0,0,0,0,0,16662,0,0,0,0,0,0,0,0,0,0,0,16663,0,0 >>

InstructionsTree_32 == <<
  0,0,0,0,0,0,0,0,0,16664,0,0,0,0,0,0,0,0,0,0,0,16665,0,0,0,0,0,0,0,0,0,0,0,16666,0,0,0,0,0,0,0,
  0,0,0,0,16667,0,0,0,0,0,0,0,0,0,0,0,16668,0,0,0,0,0,0,0,0,0,0,0,16669,0,0,0,0,0,0,0,0,0,0,0,
  16670,0,0,0,0,0,0,0,0,0,0,0,16671,0,0,0,0,0,0,0,0,0,0,0,16672,0,0,0,0,0,0,0,0,0,0,0,16673,0,0,
  0,0,0,0,0,0,0,0,0,16674,0,0,0,0,0,0,0,0,0,0,0,16675,0,0 >>

InstructionsTree_33 == <<
  0,0,0,0,0,0,0,0,0,16676,0,0,0,0,0,0,0,0,0,0,0,16677,0,0,0,0,0,0,0,0,0,0,0,16678,0,0,0,0,0,0,0,
  0,0,0,0,16679,0,0,0,0,0,0,0,0,0,0,0,16680,0,0,0,0,0,0,0,0,0,0,0,16681,0,0,0,0,0,0,0,0,0,0,0,
  16682,0,0,0,0,0,0,0,0,0,0,0,16683,0,0,0,0,0,0,0,0,0,0,0,16684,0,0,0,0,0,0,0,0,0,0,0,16685,0,0,
  0,0,0,0,0,0,0,0,0,16686,0,0,0,0,0,0,0,0,0,0,0,16687,0,0 >>

InstructionsTree_34 == <<
  0,0,0,0,0,0,0,0,0,16688,0,0,0,0,0,0,0,9399,0,0,0,16689,0,0,0,0,0,0,0,9400,0,0,0,16690,0,0,0,0,
  0,0,0,9401,0,0,0,16691,0,0,0,0,0,0,0,9402,0,0,0,16692,0,0,0,0,0,0,0,9403,0,0,0,16693,0,0,0,0,
  0,0,9404,0,0,9405,0,0,0,0,0,0,0,0,9406,0,0,9407,0,0,0,0,0,0,0,0,0,0,0,0,0,16694,0,0,0,0,0,0,0,
  0,0,0,0,16695,0,0,0,0,0,0,0,0,0,0,0,16696,0,0,0,0,0,0,0,16697,0,0,0,16698,0,0 >>

InstructionsTree_35 == <<
  0,0,0,0,0,16699,0,0,0,16700,0,0,0,0,0,0,0,16701,0,0,0,16702,0,0,0,0,0,0,0,16703,0,0,0,16704,0,
  0,0,0,0,0,0,16705,0,0,0,16706,0,0,0,0,0,0,0,16707,0,0,0,16708,0,0,0,0,0,0,0,16709,0,0,0,16710,
  0,0,0,0,0,0,16711,16712,0,0,0,16713,0,0,0,0,0,0,0,16714,0,0,0,16715,0,0,0,0,0,0,0,16716,0,0,0,
  16717,0,0,0,0,0,0,0,16718,0,0,0,16719,0,0,0,0,0,0,0,16720,0,0,0,16721,0,0,0,0,0,0,0,0,0,0,0,
  16722,0,0 >>

InstructionsTree_36 == <<
  0,0,0,0,0,0,0,0,0,16723,0,0,0,0,0,0,0,16724,0,0,0,16725,0,0,0,0,0,0,0,16726,0,0,0,16727,0,0,0,
  0,0,0,0,16728,0,0,0,16729,0,0,0,0,0,0,0,16730,0,0,0,16731,0,0,0,0,0,0,0,16732,0,0,0,16733,0,0,
  0,0,0,0,0,16734,0,0,0,16735,0,0,0,0,0,0,0,16736,0,0,0,16737,0,0,0,0,0,0,0,0,0,0,0,16738,0,0,0,
  0,0,0,0,0,0,0,0,16739,0,0,0,0,0,0,0,0,0,0,0,16740,0,0,0,0,0,0,0,16741,0,0,0,16742,0,0 >>

InstructionsTree_37 == <<
  0,0,0,0,0,16743,0,0,0,16744,0,0,0,0,0,0,0,16745,0,0,0,16746,0,0,0,0,0,0,0,16747,0,0,0,16748,0,
  0,0,0,0,0,0,16749,0,0,0,16750,0,0,0,0,0,0,9408,9409,0,0,0,16751,0,0,0,0,0,0,9410,9411,0,0,0,
  16752,0,0,0,0,0,0,9412,9413,0,0,0,16753,0,0,0,0,0,0,9414,9415,0,0,0,16754,0,0,0,0,0,0,9416,
  9417,0,0,0,16755,0,0,0,0,0,0,9418,9419,0,0,0,16756,0,0,0,0,0,0,9420,9421,0,0,0,16757,0,0,0,0,
  0,0,0,9422,0,0,0,16758,0,0 >>

InstructionsTree_38 == <<
  0,0,0,0,9423,9424,0,0,0,16759,0,0,0,0,0,0,0,9425,0,0,0,16760,0,0,0,0,0,0,16761,0,9426,0,0,0,0,
  0,0,0,0,0,16762,0,9427,0,0,0,0,0,0,0,0,0,9428,0,9429,0,16763,0,0,0,0,0,0,0,9430,0,9431,0,
  16764,0,0,0,0,0,0,0,16765,9432,9433,0,0,0,0,0,0,0,0,0 >>

InstructionsTree ==
  InstructionsTree_00 \o InstructionsTree_01 \o InstructionsTree_02 \o InstructionsTree_03 \o
  InstructionsTree_04 \o InstructionsTree_05 \o InstructionsTree_06 \o InstructionsTree_07 \o
  InstructionsTree_08 \o InstructionsTree_09 \o InstructionsTree_10 \o InstructionsTree_11 \o
  InstructionsTree_12 \o InstructionsTree_13 \o InstructionsTree_14 \o InstructionsTree_15 \o
  InstructionsTree_16 \o InstructionsTree_17 \o InstructionsTree_18 \o InstructionsTree_19 \o
  InstructionsTree_20 \o InstructionsTree_21 \o InstructionsTree_22 \o InstructionsTree_23 \o
  InstructionsTree_24 \o InstructionsTree_25 \o InstructionsTree_26 \o InstructionsTree_27 \o
  InstructionsTree_28 \o InstructionsTree_29 \o InstructionsTree_30 \o InstructionsTree_31 \o
  InstructionsTree_32 \o InstructionsTree_33 \o InstructionsTree_34 \o InstructionsTree_35 \o
  InstructionsTree_36 \o InstructionsTree_37 \o InstructionsTree_38

(* Where the tables of the escape bytes start. *)
Table_0F    == 256
Table_0F_0F == 1312
Table_0F_38 == 1768
Table_0F_3A == 2024

(* How far the names of the comparisons lie from the first one. *)
CmpMnemonicOffsets == << 0,9,18,27,39,49,59,69 >>
VCmpMnemonicOffsets == <<
  0,10,20,30,43,54,65,76,87,100,111,122,135,149,159,169,181,194,207,220,235,249,263,277,290,303,
  317,331,347,361,374,387 >>

=============================================================================
