------------------------------- MODULE MCApps -------------------------------
EXTENDS Apps

CONSTANTS root, folder

MCRoot == root
MCDirectories == {folder}
MCNames == {1, 2, 3}
MCContents == {<<>>, <<"x">>}
MCFileDescriptors == 3 .. 4
MCDirHandles == 0 .. 0
MCPageCapacity == [icons |-> 1, details |-> 2]
MCPaths == {<<1>>, <<2>>, <<2, 1>>}
MCShellData == {<<"x">>}
MCScreens == {<<0, 1>>, <<1, 2>>, <<2, 1>>}

\* A file with two lines, and a directory with a file the editor refuses.
MCVolumes ==
    {{Store!File(root, 1, <<"x", "nl", "x">>)},
     {Store!File(root, 1, <<>>), Store!Directory(root, 2, folder),
      Store!File(folder, 1, <<"bad">>)}}
=============================================================================
